---------------------------- MODULE Spec2Model ----------------------------
(***************************************************************************)
(* A model of legion-prof-viewer: the interval arithmetic (timestamp.rs),  *)
(* the entry addressing and schema (data.rs), the random data source       *)
(* (main.rs) and the viewer's layout and view-interval controller          *)
(* (app.rs).                                                               *)
(*                                                                         *)
(* Numbers.  Timestamps are i64 nanoseconds and are integers here; every   *)
(* value of the model stays far below 2^31.  Interval::lerp and unlerp are *)
(* computed in f32 (lerp_f32, unlerp_f32), rounding as the hardware does.  *)
(* The data source's item and utilization fractions are kept as the        *)
(* quotients [num, den] they are computed from (lerp, unlerp), which gives *)
(* the f32 result on the intervals and fractions drawn here.  Pixel        *)
(* coordinates and heights are whole numbers of pixels, on which f32       *)
(* addition and subtraction are exact.                                     *)
(***************************************************************************)
EXTENDS Integers, Sequences, FiniteSets, TLC

(***************************************************************************)
(* Option<T>: None is the empty sequence, Some(v) the one-element sequence.*)
(***************************************************************************)
None == << >>
Some(v) == << v >>
IsSome(o) == Len(o) = 1
Unwrap(o) == o[1]

Min2(a, b) == IF a <= b THEN a ELSE b
Max2(a, b) == IF a >= b THEN a ELSE b

\* f32::round on the quotient n / d (d > 0): nearest integer, ties away from zero
RECURSIVE RoundDiv(_, _)
RoundDiv(n, d) ==
    IF n < 0 THEN 0 - RoundDiv(0 - n, d)
    ELSE (n \div d) + (IF 2 * (n % d) >= d THEN 1 ELSE 0)

\* the element of a one-element set; { e(x) : x \in {v} } computes v once
The(S) == CHOOSE v \in S : TRUE

\* Rust's integer division: truncation towards zero
TruncDiv(n, d) == IF n >= 0 THEN n \div d ELSE 0 - ((0 - n) \div d)

(***************************************************************************)
(* timestamp.rs: Interval                                                  *)
(***************************************************************************)
Interval(start, stop) == [start |-> start, stop |-> stop]

duration_ns(self) == self.stop - self.start

contains(self, point) == point >= self.start /\ point <= self.stop

\* Interval::overlaps with intervals open at their ends
overlaps_open(self, other) == ~(other.stop <= self.start \/ other.start >= self.stop)

overlaps(self, other) == ~(other.stop < self.start \/ other.start > self.stop)

intersection(self, other) ==
    [start |-> Max2(self.start, other.start), stop |-> Min2(self.stop, other.stop)]

\* Interval::union with min and max exchanged
union_swapped(self, other) ==
    [start |-> Max2(self.start, other.start), stop |-> Min2(self.stop, other.stop)]

union(self, other) ==
    [start |-> Min2(self.start, other.start), stop |-> Max2(self.stop, other.stop)]

\* Interval::has_intersection of the viewer's own Interval (app.rs)
has_intersection(self, other) == ~(other.stop < self.start \/ other.start > self.stop)

\* value is the quotient [num, den] the caller computed
lerp(self, value) == RoundDiv(value.num * duration_ns(self), value.den) + self.start

\* the quotient (time - start) / duration; den = 0 is the division by zero
unlerp(self, time) == [num |-> time - self.start, den |-> duration_ns(self)]

(***************************************************************************)
(* data.rs: EntryID, a path of i64 where -1 is the summary                 *)
(***************************************************************************)
root == << >>

summary(self) == Append(self, -1)

child(self, index) == Append(self, index)

level(self) == Len(self)

EntrySummary == [tag |-> "Summary"]
EntrySlot(j) == [tag |-> "Slot", index |-> j]

\* EntryID::index reading the last element, as last_index does
index_of_last(self, lvl) ==
    IF lvl + 1 > Len(self) THEN None
    ELSE IF self[Len(self)] >= 0 THEN Some(EntrySlot(self[Len(self)]))
    ELSE Some(EntrySummary)

\* level is 0-based, as in the code
index(self, lvl) ==
    IF lvl + 1 > Len(self) THEN None
    ELSE IF self[lvl + 1] >= 0 THEN Some(EntrySlot(self[lvl + 1]))
    ELSE Some(EntrySummary)

(***************************************************************************)
(* data.rs: EntryInfo::get.  The result is Some(node), None, or the panic  *)
(* "EntryID and EntryInfo do not match".                                   *)
(***************************************************************************)
Found(node) == [outcome |-> "Some", node |-> Some(node)]
NotFound == [outcome |-> "None", node |-> None]
Panic == [outcome |-> "panic", node |-> None]

\* EntryInfo::get with slots.get(i) for slots.get(j)
RECURSIVE get_from_level_slot(_, _, _)
get_from_level_slot(result, entry_id, i) ==
    IF i >= level(entry_id) THEN Found(result)
    ELSE LET ix == Unwrap(index(entry_id, i)) IN
         IF result.tag # "Panel" THEN Panic
         ELSE IF ix.tag = "Summary"
              THEN (IF IsSome(result.summary) THEN Found(Unwrap(result.summary))
                    ELSE NotFound)
         ELSE IF i + 1 > Len(result.slots) THEN NotFound
         ELSE get_from_level_slot(result.slots[i + 1], entry_id, i + 1)

RECURSIVE get_from(_, _, _)
get_from(result, entry_id, i) ==
    IF i >= level(entry_id) THEN Found(result)
    ELSE LET ix == Unwrap(index(entry_id, i)) IN
         IF result.tag # "Panel" THEN Panic
         ELSE IF ix.tag = "Summary"
              THEN (IF IsSome(result.summary) THEN Found(Unwrap(result.summary))
                    ELSE NotFound)
         ELSE IF ix.index + 1 > Len(result.slots) THEN NotFound
         ELSE get_from(result.slots[ix.index + 1], entry_id, i + 1)

get(self, entry_id) == get_from(self, entry_id, 0)

(***************************************************************************)
(* Bounds of the model.  The source builds 8192 nodes of 7 kinds of 8      *)
(* processors, 1000 items a row, up to 63 rows a slot and a 2^9+1 point    *)
(* utilization curve; the model keeps the code and bounds the sizes.       *)
(***************************************************************************)
\* nodes of the schema tree (the source's NODES is 8192)
NODES == 1
\* processors of a kind (the source's PROCS is 8)
PROCS == 2
\* items of a row (the source's N is 1000)
N == 3
\* max_rows is drawn from 0..MaxRows (the source draws from 0..63)
MaxRows == 2
\* depth of the utilization curve's subdivision (the source's LEVELS is 8)
LEVELS == 2
\* the random streams a generation may draw from
Streams == 2
\* request intervals have their ends in 0..MaxTime, beside those at data scale
MaxTime == 6

\* f32 utilization 1.0 in the model's fixed point (thousandths)
UtilOne == 1000

\* rng.gen_range(1_000_000..2_000_000): the ends of the range and one inside
IntervalStops == {1000000, 1500000, 1999999}

Kinds == << "CPU", "GPU", "OMP", "Py", "Util", "Chan", "SysMem" >>
KindsLower == << "cpu", "gpu", "omp", "py", "util", "chan", "sysmem" >>
KindInitial == << "c", "g", "o", "p", "u", "c", "s" >>
Colors == << "BLUE", "GREEN", "RED", "YELLOW" >>
ItemColors ==
    << "BLUE", "GREEN", "RED", "YELLOW", "KHAKI", "DARK_GREEN", "DARK_BLUE" >>

\* the k-th draw of rng.gen_range(0..64) in stream s, within the model's bound
DrawRows(s, k) == (s - 1 + k) % (MaxRows + 1)

\* the k-th draw of rng.gen::<f32>() in stream s, in thousandths
DrawUtil(s, k) == (s * 379 + k * 613 + s * k * 97) % UtilOne

RECURSIVE Pow(_, _)
Pow(b, e) == IF e = 0 THEN 1 ELSE b * Pow(b, e - 1)

(***************************************************************************)
(* f32 arithmetic, for the two conversions of Interval.  A finite f32 is   *)
(* m * 2^e or its negative (neg) with m = 0 or 2^23 <= m < 2^24 (24 bits   *)
(* of mantissa); every operation rounds its exact result to the nearest    *)
(* such value, ties to the even mantissa.  The exponents met here are far  *)
(* from the ends of the f32 range.  0.0 / 0.0 is NaN; the sign of a zero   *)
(* is not kept (a zero casts to 0 either way).                             *)
(***************************************************************************)
MantissaBits == 24

F32(m, e) == [kind |-> "num", neg |-> FALSE, m |-> m, e |-> e]
F32NaN == [kind |-> "nan", neg |-> FALSE, m |-> 0, e |-> 0]
F32Inf == [kind |-> "inf", neg |-> FALSE, m |-> 0, e |-> 0]
F32Zero == F32(0, 0)

\* x with the sign neg; a zero and NaN keep none
Signed(x, neg) == IF x.kind = "nan" \/ (x.kind = "num" /\ x.m = 0) THEN x
                  ELSE [x EXCEPT !.neg = neg]

Abs(n) == IF n < 0 THEN 0 - n ELSE n

\* the least mantissa of a normalised value, 2^23
MantissaMin == Pow(2, MantissaBits - 1)

\* the number of bits of n > 0
RECURSIVE BitLen(_)
BitLen(n) == IF n = 0 THEN 0 ELSE 1 + BitLen(n \div 2)

\* m * 2^e exactly, for 0 < m < 2^24
Normalise(m, e) ==
    LET shift == MantissaBits - BitLen(m) IN F32(m * Pow(2, shift), e - shift)

\* -1, 0, 1 as a is less than, equal to or greater than b
Compare(a, b) == IF a < b THEN -1 ELSE IF a = b THEN 0 ELSE 1

\* m * 2^e plus a rest below one unit of m, rounded to nearest, ties to even;
\* cmp compares the rest with half a unit
RoundNearestEven(m, e, cmp) ==
    LET m1 == IF cmp = 1 \/ (cmp = 0 /\ m % 2 = 1) THEN m + 1 ELSE m
    IN  IF m1 = 2 * MantissaMin THEN F32(MantissaMin, e + 1) ELSE F32(m1, e)

\* n as f32
f32_from_i64(n) ==
    LET a == Abs(n) IN
    IF a = 0 THEN F32Zero
    ELSE IF BitLen(a) <= MantissaBits THEN Signed(Normalise(a, 0), n < 0)
    ELSE LET k == BitLen(a) - MantissaBits
             unit == Pow(2, k)
         IN  Signed(RoundNearestEven(a \div unit, k, Compare(2 * (a % unit), unit)),
                    n < 0)

\* bits more bits of the quotient of r by d, and the rest
DivChunk(r, d, bits) ==
    [q |-> (r * Pow(2, bits)) \div d, r |-> (r * Pow(2, bits)) % d]

\* a / b
f32_div(a, b) ==
    IF a.kind # "num" \/ b.kind # "num" THEN F32NaN
    ELSE IF b.m = 0 THEN (IF a.m = 0 THEN F32NaN ELSE Signed(F32Inf, a.neg # b.neg))
    ELSE IF a.m = 0 THEN F32Zero
    ELSE LET k == IF a.m >= b.m THEN MantissaBits - 1 ELSE MantissaBits
             c0 == [q |-> a.m \div b.m, r |-> a.m % b.m]
             c1 == DivChunk(c0.r, b.m, 7)
             c2 == DivChunk(c1.r, b.m, 7)
             c3 == DivChunk(c2.r, b.m, 7)
             c4 == DivChunk(c3.r, b.m, k - 21)
             q == (((c0.q * 128 + c1.q) * 128 + c2.q) * 128 + c3.q) * Pow(2, k - 21)
                  + c4.q
         IN  Signed(RoundNearestEven(q, a.e - b.e - k, Compare(2 * c4.r, b.m)),
                    a.neg # b.neg)

\* a * b; the 48-bit product of the mantissas is hi * 2^24 + lo
f32_mul(a, b) ==
    IF a.kind = "nan" \/ b.kind = "nan" THEN F32NaN
    ELSE IF a.kind = "inf" \/ b.kind = "inf"
    THEN (IF (a.kind = "num" /\ a.m = 0) \/ (b.kind = "num" /\ b.m = 0)
          THEN F32NaN ELSE Signed(F32Inf, a.neg # b.neg))
    ELSE IF a.m = 0 \/ b.m = 0 THEN F32Zero
    ELSE LET a1 == a.m \div 4096
             a0 == a.m % 4096
             b1 == b.m \div 4096
             b0 == b.m % 4096
             mid == a1 * b0 + a0 * b1
             low == (mid % 4096) * 4096 + a0 * b0
             hi == a1 * b1 + (mid \div 4096) + (low \div (2 * MantissaMin))
             lo == low % (2 * MantissaMin)
             product ==
                 IF hi >= MantissaMin
                 THEN RoundNearestEven(hi, a.e + b.e + MantissaBits,
                                       Compare(lo, MantissaMin))
                 ELSE RoundNearestEven(2 * hi + (lo \div MantissaMin),
                                       a.e + b.e + MantissaBits - 1,
                                       Compare(2 * (lo % MantissaMin), MantissaMin))
         IN  Signed(product, a.neg # b.neg)

\* n with the sign of value
WithSign(value, n) == IF value.neg THEN 0 - n ELSE n

\* value.round() as i64: half away from zero; NaN casts to 0.  (An infinity
\* saturates at the ends of i64; no division here has a zero divisor with a
\* dividend that is not zero.)
f32_round_as_i64(value) ==
    IF value.kind = "nan" \/ value.m = 0 THEN 0
    ELSE IF value.e >= 0 THEN WithSign(value, value.m * Pow(2, value.e))
    ELSE IF 0 - value.e > MantissaBits THEN 0
    ELSE LET unit == Pow(2, 0 - value.e)
         IN  WithSign(value, (value.m \div unit)
                             + (IF 2 * (value.m % unit) >= unit THEN 1 ELSE 0))

\* Interval::unlerp dividing by stop
unlerp_f32_by_stop(self, time) ==
    f32_div(f32_from_i64(time - self.start), f32_from_i64(self.stop))

\* Interval::unlerp in f32
unlerp_f32(self, time) ==
    f32_div(f32_from_i64(time - self.start), f32_from_i64(duration_ns(self)))

\* value as i64 without round(): the cast truncates
f32_as_i64(value) ==
    IF value.kind = "nan" \/ value.m = 0 THEN 0
    ELSE IF value.e >= 0 THEN WithSign(value, value.m * Pow(2, value.e))
    ELSE IF 0 - value.e > MantissaBits THEN 0
    ELSE WithSign(value, value.m \div Pow(2, 0 - value.e))

\* Interval::lerp without round()
lerp_f32_truncating(self, value) ==
    f32_as_i64(f32_mul(value, f32_from_i64(duration_ns(self)))) + self.start

\* Interval::lerp in f32
lerp_f32(self, value) ==
    f32_round_as_i64(f32_mul(value, f32_from_i64(duration_ns(self)))) + self.start

(***************************************************************************)
(* main.rs: RandomDataSource                                               *)
(***************************************************************************)
UtilPoint(time, util) == [time |-> time, util |-> util]

Clamp01(u) == Min2(Max2(u, 0), UtilOne)

\* generate_point; k is the number of draws made before the call.  A call at
\* level lvl makes 2^(lvl+1) - 1 draws: its own, then the left half, then the
\* right half.
RECURSIVE generate_point(_, _, _, _, _, _)
generate_point(s, k, first, last, lvl, max_level) ==
    LET time == TruncDiv(first.time + last.time, 2)
        mid == TruncDiv(first.util + last.util, 2)
        \* (gen - 0.5) / 1.2^(max_level - level)
        diff == TruncDiv((DrawUtil(s, k) - (UtilOne \div 2)) * Pow(5, max_level - lvl),
                         Pow(6, max_level - lvl))
    IN  The({ IF lvl > 0
              THEN generate_point(s, k + 1, first, point, lvl - 1, max_level)
                   \o << point >>
                   \o generate_point(s, k + Pow(2, lvl), point, last, lvl - 1, max_level)
              ELSE << point >>
              : point \in { UtilPoint(time, Clamp01(mid + diff)) } })

\* the utilization generate_summary builds: data interval iv, random stream s
utilization_of(iv, s) ==
    LET first == UtilPoint(iv.start, DrawUtil(s, 0))
        last == UtilPoint(iv.stop, DrawUtil(s, 1))
    IN  << first >> \o generate_point(s, 2, first, last, LEVELS, LEVELS) \o << last >>

Item(iv, color, name) == [interval |-> iv, color |-> color, name |-> name]

\* the items generate_slot builds for a slot of max_rows rows
items_of(iv, max_rows) ==
    [row \in 1..max_rows |->
        [i \in 1..N |->
            Item(Interval(lerp(iv, [num |-> 20 * (i - 1) + 1, den |-> 20 * N]),
                          lerp(iv, [num |-> 20 * (i - 1) + 19, den |-> 20 * N])),
                 ItemColors[(((row - 1) * N + (i - 1)) % 7) + 1],
                 "Test Item")]]

\* the schema tree fetch_info builds, max_rows drawn from random stream s
InfoSlot(s, node, k, proc) ==
    [tag |-> "Slot",
     short_name |-> << KindInitial[k], proc >>,
     long_name |-> << "Node", node, Kinds[k], proc >>,
     max_rows |-> DrawRows(s, (node * Len(Kinds) + (k - 1)) * PROCS + proc)]

InfoKind(s, node, k) ==
    [tag |-> "Panel",
     short_name |-> KindsLower[k],
     long_name |-> << "Node", node, Kinds[k] >>,
     summary |-> Some([tag |-> "Summary", color |-> Colors[((k - 1) % Len(Colors)) + 1]]),
     slots |-> [p \in 1..PROCS |-> InfoSlot(s, node, k, p - 1)]]

InfoNode(s, node) ==
    [tag |-> "Panel",
     short_name |-> << "n", node >>,
     long_name |-> << "Node", node >>,
     summary |-> None,
     slots |-> [k \in 1..Len(Kinds) |-> InfoKind(s, node, k)]]

build_info(s) ==
    [tag |-> "Panel",
     short_name |-> "root",
     long_name |-> "root",
     summary |-> None,
     slots |-> [n \in 1..NODES |-> InfoNode(s, n - 1)]]

TILES == 3

TileID(iv) == iv

\* request_tiles with the division done before the multiplication
request_tiles_divide_first(entry_id, request_interval) ==
    LET duration == duration_ns(request_interval) IN
    [i \in 1..TILES |->
        TileID(Interval((i - 1) * TruncDiv(duration, TILES) + request_interval.start,
                        i * TruncDiv(duration, TILES) + request_interval.start))]

request_tiles(entry_id, request_interval) ==
    LET duration == duration_ns(request_interval) IN
    [i \in 1..TILES |->
        TileID(Interval(TruncDiv((i - 1) * duration, TILES) + request_interval.start,
                        TruncDiv(i * duration, TILES) + request_interval.start))]

\* the inner loop of fetch_slot_tile without the slicing of the item
RECURSIVE slot_row_unsliced(_, _)
slot_row_unsliced(row, tile_id) ==
    IF row = << >> THEN << >>
    ELSE LET item == Head(row)
             rest == slot_row_unsliced(Tail(row), tile_id)
         IN  IF overlaps(tile_id, item.interval) THEN << item >> \o rest ELSE rest

\* the inner loop of fetch_slot_tile over one row
RECURSIVE slot_row(_, _)
slot_row(row, tile_id) ==
    IF row = << >> THEN << >>
    ELSE LET item == Head(row)
             rest == slot_row(Tail(row), tile_id)
         IN  IF overlaps(tile_id, item.interval)
             THEN << [item EXCEPT !.interval = intersection(item.interval, tile_id)] >>
                  \o rest
             ELSE rest

\* the SlotTile fetch_slot_tile returns from the cached items
slot_tile(items, tile_id) ==
    [tile_id |-> tile_id,
     items |-> [r \in 1..Len(items) |-> slot_row(items[r], tile_id)]]

\* fetch_summary_tile's interpolated utilization (last_util - util) * relative
\* + last_util, where relative is the quotient unlerp returned
interpolate(last_util, util, relative) ==
    IF relative.den = 0 THEN "NaN"
    ELSE TruncDiv((last_util - util) * relative.num, relative.den) + last_util

\* the loop of fetch_summary_tile pushing every point, in the tile or not
RECURSIVE summary_points_unfiltered(_, _, _)
summary_points_unfiltered(utilization, i, tile_id) ==
    IF i > Len(utilization) THEN << >>
    ELSE LET last_point == utilization[i - 1]
             point == utilization[i]
             last_interval == Interval(last_point.time, point.time)
             at_start ==
                 IF contains(last_interval, tile_id.start)
                 THEN << UtilPoint(tile_id.start,
                                   interpolate(last_point.util, point.util,
                                               unlerp(last_interval, tile_id.start))) >>
                 ELSE << >>
             at_stop ==
                 IF contains(last_interval, tile_id.stop)
                 THEN << UtilPoint(tile_id.stop,
                                   interpolate(last_point.util, point.util,
                                               unlerp(last_interval, tile_id.stop))) >>
                 ELSE << >>
         IN  at_start \o << point >> \o at_stop
             \o summary_points_unfiltered(utilization, i + 1, tile_id)

\* the loop of fetch_summary_tile from the second point on
RECURSIVE summary_points(_, _, _)
summary_points(utilization, i, tile_id) ==
    IF i > Len(utilization) THEN << >>
    ELSE LET last_point == utilization[i - 1]
             point == utilization[i]
             last_interval == Interval(last_point.time, point.time)
             at_start ==
                 IF contains(last_interval, tile_id.start)
                 THEN << UtilPoint(tile_id.start,
                                   interpolate(last_point.util, point.util,
                                               unlerp(last_interval, tile_id.start))) >>
                 ELSE << >>
             inside == IF contains(tile_id, point.time) THEN << point >> ELSE << >>
             at_stop ==
                 IF contains(last_interval, tile_id.stop)
                 THEN << UtilPoint(tile_id.stop,
                                   interpolate(last_point.util, point.util,
                                               unlerp(last_interval, tile_id.stop))) >>
                 ELSE << >>
         IN  at_start \o inside \o at_stop \o summary_points(utilization, i + 1, tile_id)

\* the SummaryTile fetch_summary_tile returns from the cached utilization
summary_tile(utilization, tile_id) ==
    [tile_id |-> tile_id, utilization |-> summary_points(utilization, 2, tile_id)]

(***************************************************************************)
(* The RandomDataSource's lazily computed fields.  Each operator takes the *)
(* struct (self) and returns it as the call leaves it; stop and s are what *)
(* the rng would draw if the call has to generate.                         *)
(***************************************************************************)
NoCache == [e \in {} |-> << >>]

DefaultDataSource ==
    [info |-> None, interval |-> None, summary_cache |-> NoCache, slot_cache |-> NoCache]

interval(self, stop) ==
    IF IsSome(self.interval) THEN self
    ELSE [self EXCEPT !.interval = Some(Interval(0, stop))]

fetch_info(self, s) ==
    IF IsSome(self.info) THEN self
    ELSE [self EXCEPT !.info = Some(build_info(s))]

\* generate_summary without the contains_key test
generate_summary_always(self, entry_id, stop, s) ==
    LET s1 == interval(self, stop) IN
    [s1 EXCEPT !.summary_cache =
        [e \in DOMAIN @ \cup { entry_id } |->
            IF e = entry_id THEN utilization_of(Unwrap(s1.interval), s) ELSE @[e]]]

generate_summary(self, entry_id, stop, s) ==
    IF entry_id \in DOMAIN self.summary_cache THEN self
    ELSE LET s1 == interval(self, stop) IN
         [s1 EXCEPT !.summary_cache =
             @ @@ (entry_id :> utilization_of(Unwrap(s1.interval), s))]

\* generate_slot panics unless the schema has a Slot at entry_id
slot_entry_ok(self, entry_id, s) ==
    LET e == get(Unwrap(fetch_info(self, s).info), entry_id) IN
    e.outcome = "Some" /\ Unwrap(e.node).tag = "Slot"

generate_slot(self, entry_id, stop, s) ==
    IF entry_id \in DOMAIN self.slot_cache THEN self
    ELSE LET s1 == fetch_info(self, s)
             max_rows == Unwrap(get(Unwrap(s1.info), entry_id).node).max_rows
             \* interval() is called inside the loop over the rows only
             s2 == IF max_rows > 0 THEN interval(s1, stop) ELSE s1
             items == IF max_rows > 0 THEN items_of(Unwrap(s2.interval), max_rows)
                      ELSE << >>
         IN  [s2 EXCEPT !.slot_cache = @ @@ (entry_id :> items)]

(***************************************************************************)
(* app.rs: the entries of the viewer.  A Summary, a Slot and a Panel are   *)
(* records with a tag; a Panel's slots are Panels or Slots.                *)
(***************************************************************************)
ROW_PADDING == 4
COL_PADDING == 4
LABEL_WIDTH == 60
UNEXPANDED_ROWS == 2
SUMMARY_ROWS == 4

Rect(min_x, min_y, max_x, max_y) ==
    [min_x |-> min_x, min_y |-> min_y, max_x |-> max_x, max_y |-> max_y]

\* Rect::translate by Vec2::new(0.0, -dy)
translate_y_back(rect, dy) == [rect EXCEPT !.min_y = @ - dy, !.max_y = @ - dy]

\* Rect::translate by Vec2::new(0.0, dy)
translate_y(rect, dy) == [rect EXCEPT !.min_y = @ + dy, !.max_y = @ + dy]

Config(min_node, max_node, iv) ==
    [min_node |-> min_node, max_node |-> max_node, interval |-> iv]

\* the colours of Slot::generate
AppItemColors ==
    << "BLUE", "RED", "GREEN", "YELLOW", "KHAKI", "DARK_GREEN", "DARK_BLUE" >>

\* Slot::rows
rows(self) ==
    IF self.expanded THEN Max2(self.max_rows, UNEXPANDED_ROWS) ELSE UNEXPANDED_ROWS

\* Slot::generate
slot_generate(self, config) ==
    [self EXCEPT !.items =
        [row \in 1..self.max_rows |->
            [i \in 1..N |->
                [row |-> row - 1,
                 interval |->
                     Interval(lerp(config.interval, [num |-> 20 * (i - 1) + 1, den |-> 20 * N]),
                              lerp(config.interval, [num |-> 20 * (i - 1) + 19, den |-> 20 * N])),
                 color |-> AppItemColors[(((row - 1) * N + (i - 1)) % 7) + 1]]]]]

\* the row loop of Slot::content stopping at the first row below the viewport
RECURSIVE slot_rows_break_below(_, _, _, _)
slot_rows_break_below(self, rect, viewport, row) ==
    IF row >= Len(self.items) THEN << >>
    ELSE LET irow == Len(self.items) - row - 1
             scale == 20 * rows(self)
             h == rect.max_y - rect.min_y
         IN  IF (20 * irow + 19) * h < scale * viewport.min_y
             THEN slot_rows_break_below(self, rect, viewport, row + 1)
             ELSE IF (20 * irow + 1) * h > scale * viewport.max_y
             THEN << >>
             ELSE << row >> \o slot_rows_break_below(self, rect, viewport, row + 1)

\* the row loop of Slot::content from row on: the rows whose items are
\* examined.  row_min.y and row_max.y are rect.min.y + (irow + 0.05) / rows
\* and (irow + 0.95) / rows of the rect's height, compared here as multiples
\* of 1 / (20 * rows) of a pixel
RECURSIVE slot_rows(_, _, _, _)
slot_rows(self, rect, viewport, row) ==
    IF row >= Len(self.items) THEN << >>
    ELSE LET irow == Len(self.items) - row - 1
             scale == 20 * rows(self)
             h == rect.max_y - rect.min_y
         IN  IF (20 * irow + 19) * h < scale * viewport.min_y
             THEN << >>
             ELSE IF (20 * irow + 1) * h > scale * viewport.max_y
             THEN slot_rows(self, rect, viewport, row + 1)
             ELSE << row >> \o slot_rows(self, rect, viewport, row + 1)

\* Summary::generate, drawing from random stream s after k earlier draws
summary_generate(self, config, s, k) ==
    LET first == UtilPoint(config.interval.start, DrawUtil(s, k))
        last == UtilPoint(config.interval.stop, DrawUtil(s, k + 1))
    IN  [self EXCEPT !.utilization =
            @ \o << first >> \o generate_point(s, k + 2, first, last, LEVELS, LEVELS)
              \o << last >>]

\* the draws one Summary::generate makes
SummaryDraws == Pow(2, LEVELS + 1) + 1

\* Panel::is_slot_visible without the node filter
is_slot_visible_any(parent_level, i, config) == TRUE

\* Panel::is_slot_visible; index is 0-based
is_slot_visible(parent_level, i, config) ==
    parent_level # 0 \/ (i >= config.min_node /\ i <= config.max_node)

\* the last line of Panel::height with one padding for every row
panel_padding_every_row(nrows) == nrows * ROW_PADDING

\* the last line of Panel::height: (rows - 1).at_least(0) as f32 * ROW_PADDING
panel_padding(nrows) == Max2(nrows - 1, 0) * ROW_PADDING

\* Entry::height of a Summary, a Slot or a Panel
RECURSIVE height(_, _, _)
RECURSIVE slots_height(_, _, _, _)
\* the loop of Panel::height from slot i on: the total and the rows it adds
slots_height(self, config, cx, i) ==
    IF i > Len(self.slots) THEN [total |-> 0, rows |-> 0]
    ELSE IF ~is_slot_visible(self.level, i - 1, config)
    THEN slots_height(self, config, cx, i + 1)
    ELSE The({ [total |-> height(self.slots[i], config, cx) + rest.total,
                rows |-> 1 + rest.rows]
               : rest \in { slots_height(self, config, cx, i + 1) } })

height(self, config, cx) ==
    IF self.tag = "Summary" THEN SUMMARY_ROWS * cx.row_height
    ELSE IF self.tag = "Slot" THEN rows(self) * cx.row_height
    ELSE LET head ==
                 IF IsSome(self.summary)
                 THEN [total |-> height(Unwrap(self.summary), config, cx), rows |-> 1]
                 ELSE IF ~self.expanded
                 THEN [total |-> UNEXPANDED_ROWS * cx.row_height, rows |-> 1]
                 ELSE [total |-> 0, rows |-> 0]
         IN  The({ head.total + body.total + panel_padding(head.rows + body.rows)
                   : body \in { IF self.expanded THEN slots_height(self, config, cx, 1)
                                ELSE [total |-> 0, rows |-> 0] } })

\* Entry::is_expandable
is_expandable(self) == self.tag # "Summary"

\* Entry::toggle_expanded
toggle_expanded(self) == [self EXCEPT !.expanded = ~@]

\* Entry::label toggling the entry on a click of any label
label_any_click(self, id, w) ==
    IF is_expandable(self) /\ IsSome(w.clicked) THEN toggle_expanded(self) ELSE self

\* Entry::label: the click toggles the entry; id names the entry and w.clicked
\* the entry whose label the pointer clicked in this frame
label(self, id, w) ==
    IF is_expandable(self) /\ w.clicked = Some(id) THEN toggle_expanded(self) ELSE self

\* the cull test of Panel::render without the shift by rect.min.y
culled_unshifted(min_y, max_y, rect, viewport) ==
    IF max_y < viewport.min_y THEN "above"
    ELSE IF min_y > viewport.max_y THEN "below"
    ELSE "no"

\* the cull test of Panel::render answering "below" above the viewport too
culled_below_when_above(min_y, max_y, rect, viewport) ==
    IF max_y - rect.min_y < viewport.min_y THEN "below"
    ELSE IF min_y - rect.min_y > viewport.max_y THEN "below"
    ELSE "no"

\* the cull test of Panel::render
culled(min_y, max_y, rect, viewport) ==
    IF max_y - rect.min_y < viewport.min_y THEN "above"
    ELSE IF min_y - rect.min_y > viewport.max_y THEN "below"
    ELSE "no"

(***************************************************************************)
(* Entry::content and Panel::render.  w is what a layout pass reads and    *)
(* writes beside the entries: the Context (cx), the label clicked in this  *)
(* frame, the random stream and the draws made so far, and the record of   *)
(* the pass (visits: the entries whose content and label were called).     *)
(* Each operator returns the entry and w as the call leaves them.          *)
(***************************************************************************)
RECURSIVE content(_, _, _, _, _, _)
RECURSIVE render(_, _, _, _, _, _, _)
RECURSIVE panel_slots(_, _, _, _, _, _, _, _)

\* Panel::render of slot (the entry id) at *y = y
render(slot, id, rect, viewport, y, config, w) ==
    The({
    LET min_y == y
        max_y == min_y + h
        y1 == max_y + ROW_PADDING
        cull == culled(min_y, max_y, rect, viewport)
    IN  IF cull = "above" THEN [slot |-> slot, y |-> y1, brk |-> FALSE, w |-> w]
        ELSE IF cull = "below" THEN [slot |-> slot, y |-> y1, brk |-> TRUE, w |-> w]
        ELSE LET label_min == rect.min_x
                 label_max == Min2(rect.min_x + LABEL_WIDTH, rect.max_x)
                 content_min == Min2(label_max + COL_PADDING, rect.max_x)
                 content_max == rect.max_x
                 label_subrect == Rect(label_min, min_y, label_max, max_y)
                 content_subrect == Rect(content_min, min_y, content_max, max_y)
                 content_viewport == translate_y(viewport, rect.min_y - min_y)
             IN  The({ [slot |-> label(c.self, id, c.w), y |-> y1, brk |-> FALSE,
                        w |-> c.w]
                       : c \in { The({ content(slot, id, content_subrect,
                                               content_viewport, config, w1)
                                       : w1 \in { [w EXCEPT !.visits =
                                           Append(@, [id |-> id,
                                                      rect |-> content_subrect,
                                                      label |-> label_subrect,
                                                      viewport |-> content_viewport])] }
                                 }) } })
    : h \in { height(slot, config, w.cx) } })

\* the loop of Panel::content from slot i on, at *y = y
panel_slots(self, id, rect, viewport, config, i, y, w) ==
    IF i > Len(self.slots) THEN [self |-> self, w |-> w]
    ELSE IF ~is_slot_visible(self.level, i - 1, config)
    THEN panel_slots(self, id, rect, viewport, config, i + 1, y, w)
    ELSE The({ The({ IF r.brk THEN [self |-> self1, w |-> r.w]
                     ELSE panel_slots(self1, id, rect, viewport, config, i + 1,
                                      r.y, r.w)
                     : self1 \in { [self EXCEPT !.slots[i] = r.slot] } })
               : r \in { render(self.slots[i], child(id, i - 1), rect, viewport, y,
                                config, w) } })

content(self, id, rect, viewport, config, w) ==
    IF self.tag = "Summary"
    THEN LET w1 == [w EXCEPT !.cx.slot_rect = Some(rect)] IN
         IF self.utilization = << >>
         THEN [self |-> summary_generate(self, config, w.stream, w.draws),
               w |-> [w1 EXCEPT !.draws = @ + SummaryDraws,
                                !.generates = Append(@, id)]]
         ELSE [self |-> self, w |-> w1]
    ELSE IF self.tag = "Slot"
    THEN LET w1 == [w EXCEPT !.cx.slot_rect = Some(rect)] IN
         IF self.expanded /\ self.items = << >>
         THEN [self |-> slot_generate(self, config),
               w |-> [w1 EXCEPT !.generates = Append(@, id)]]
         ELSE [self |-> self, w |-> w1]
    ELSE The({ The({ IF self.expanded
                     THEN panel_slots(self1, id, rect, viewport, config, 1, s.y, s.w)
                     ELSE [self |-> self1, w |-> s.w]
                     : self1 \in { IF IsSome(self.summary)
                                   THEN [self EXCEPT !.summary = Some(s.slot)]
                                   ELSE self } })
               : s \in { IF IsSome(self.summary)
                         THEN render(Unwrap(self.summary), summary(id), rect, viewport,
                                     rect.min_y, config, w)
                         ELSE [slot |-> << >>, y |-> rect.min_y, brk |-> FALSE,
                               w |-> w] } })

(***************************************************************************)
(* app.rs: Window and ProfApp.  long_name is only shown on hover and is    *)
(* left out of the entries; a name built by format! is the tuple of its    *)
(* arguments.                                                              *)
(***************************************************************************)
MIN_DRAG_DISTANCE == 4

Pos2(x, y) == [x |-> x, y |-> y]

\* Panel::default()
DefaultPanel ==
    [tag |-> "Panel", expanded |-> FALSE, short_name |-> << >>, level |-> 0,
     summary |-> None, slots |-> << >>]

\* Window::default()
DefaultWindow ==
    [panel |-> DefaultPanel, index |-> 0, kinds |-> << >>,
     config |-> Config(0, 0, Interval(0, 0))]

\* Context::default()
DefaultContext ==
    [row_height |-> 0, total_interval |-> Interval(0, 0),
     view_interval |-> Interval(0, 0), drag_origin |-> None, slot_rect |-> None]

\* the draws Window::generate makes
GenerateDraws == NODES * Len(Kinds) * PROCS

\* Window::generate, drawing from random stream s
Window_generate(self, s) ==
    LET proc_slot(node, i, proc) ==
            [tag |-> "Slot", expanded |-> TRUE,
             short_name |-> << KindInitial[i], proc >>,
             max_rows |-> DrawRows(s, (node * Len(Kinds) + (i - 1)) * PROCS + proc),
             items |-> << >>]
        kind_slot(node, i) ==
            [tag |-> "Panel", expanded |-> FALSE, short_name |-> << KindsLower[i] >>,
             level |-> 2,
             summary |-> Some([tag |-> "Summary", utilization |-> << >>,
                               color |-> Colors[((i - 1) % Len(Colors)) + 1]]),
             slots |-> [p \in 1..PROCS |-> proc_slot(node, i, p - 1)]]
        node_slot(node) ==
            [tag |-> "Panel", expanded |-> TRUE, short_name |-> << "n", node >>,
             level |-> 1, summary |-> None,
             slots |-> [i \in 1..Len(Kinds) |-> kind_slot(node, i)]]
    IN  [self EXCEPT
            !.kinds = Kinds,
            !.panel = [tag |-> "Panel", expanded |-> TRUE, short_name |-> << "root" >>,
                       level |-> 0, summary |-> None,
                       slots |-> [n \in 1..NODES |-> node_slot(n - 1)]],
            !.config.min_node = 0,
            !.config.max_node = NODES - 1]

\* Window::content.  ui is the rect the scroll area fills on screen, scroll the
\* scroll offset (viewport.min.y); returns the window, w and the height it set
Window_content(self, ui, scroll, w) ==
    LET fresh == self.panel.slots = << >>
        viewport == Rect(0, scroll, ui.max_x - ui.min_x, scroll + (ui.max_y - ui.min_y))
        rect == Rect(ui.min_x, ui.min_y - scroll, ui.max_x, ui.max_y - scroll)
    IN  The({ The({ [self |-> [self1 EXCEPT !.panel = c.self], w |-> c.w,
                     height |-> height(self1.panel, self1.config, w.cx),
                     rect |-> rect, viewport |-> viewport]
                    : c \in { content(self1.panel, root, rect, viewport, self1.config,
                                      IF fresh THEN [w EXCEPT !.draws = @ + GenerateDraws]
                                      ELSE w) } })
              : self1 \in { IF fresh THEN Window_generate(self, w.stream) ELSE self } })

\* Window::node_selection without the test after the second slider
node_selection_unclamped(self, first, last) ==
    LET min1 == IF IsSome(first) THEN Unwrap(first) ELSE self.config.min_node
        max1 == IF min1 > self.config.max_node THEN min1 ELSE self.config.max_node
        max2 == IF IsSome(last) THEN Unwrap(last) ELSE max1
    IN  [self EXCEPT !.config.min_node = min1, !.config.max_node = max2]

\* Window::node_selection; first and last are what the sliders write, if anything
node_selection(self, first, last) ==
    LET min1 == IF IsSome(first) THEN Unwrap(first) ELSE self.config.min_node
        max1 == IF min1 > self.config.max_node THEN min1 ELSE self.config.max_node
        max2 == IF IsSome(last) THEN Unwrap(last) ELSE max1
        min2 == IF min1 > max2 THEN max2 ELSE min1
    IN  [self EXCEPT !.config.min_node = min2, !.config.max_node = max2]

\* toggle_all of Window::expand_collapse without the comparison of the labels
toggle_all_any_label(self, label_text, toggle) ==
    [self EXCEPT !.panel.slots =
        [n \in DOMAIN @ |->
            [@[n] EXCEPT !.slots =
                [k \in DOMAIN @ |->
                    IF @[k].expanded = toggle
                    THEN toggle_expanded(@[k]) ELSE @[k]]]]]

\* toggle_all of Window::expand_collapse
toggle_all(self, label_text, toggle) ==
    [self EXCEPT !.panel.slots =
        [n \in DOMAIN @ |->
            [@[n] EXCEPT !.slots =
                [k \in DOMAIN @ |->
                    IF @[k].expanded = toggle /\ @[k].short_name = label_text
                    THEN toggle_expanded(@[k]) ELSE @[k]]]]]

\* Window::expand_collapse; button is the button clicked, if any
expand_collapse(self, button) ==
    IF IsSome(button)
    THEN toggle_all(self, << KindsLower[Unwrap(button).kind] >>, ~Unwrap(button).expand)
    ELSE self

\* Window::controls
controls(self, ctl) ==
    expand_collapse(node_selection(self, ctl.first, ctl.last), ctl.button)

\* ProfApp::new without stored state; stop is the draw for the time bound
ProfApp_new(stop) ==
    LET window == [DefaultWindow EXCEPT !.config.interval = Interval(0, stop)] IN
    [windows |-> << window >>,
     cx |-> [DefaultContext EXCEPT !.total_interval = window.config.interval,
                                   !.view_interval = window.config.interval]]

\* "Add Another Profile" of ProfApp::update
add_profile(app, stop) ==
    LET idx == IF app.windows = << >> THEN 0
               ELSE app.windows[Len(app.windows)].index + 1
        window == [DefaultWindow EXCEPT !.index = idx,
                                        !.config.interval = Interval(0, stop)]
        total == union(app.cx.total_interval, window.config.interval)
    IN  [windows |-> Append(app.windows, window),
         cx |-> [app.cx EXCEPT !.total_interval = total, !.view_interval = total]]

\* "Reset View Interval" with the assignment the other way round
reset_view_swapped(app) == [app EXCEPT !.cx.total_interval = app.cx.view_interval]

\* "Reset View Interval" of ProfApp::update
reset_view(app) == [app EXCEPT !.cx.view_interval = app.cx.total_interval]

\* the release test of ProfApp::cursor with >= for >
drag_commits_at_threshold(min, max) == max - min >= MIN_DRAG_DISTANCE

\* the release test of ProfApp::cursor
drag_commits(min, max) == max - min > MIN_DRAG_DISTANCE

\* the release branch of ProfApp::cursor clearing drag_origin only with the
\* view interval set
drag_released_origin_kept(cx, min, max, iv) ==
    IF drag_commits(min, max)
    THEN [cx EXCEPT !.view_interval = iv, !.drag_origin = None]
    ELSE cx

\* the release branch of ProfApp::cursor
drag_released(cx, min, max, iv) ==
    [cx EXCEPT !.view_interval = IF drag_commits(min, max) THEN iv ELSE @,
               !.drag_origin = None]

\* ProfApp::cursor.  ui_rect is ui.min_rect(); ptr is the response of the
\* timeline rect: dragged (by the primary button), drag_started, drag_released
\* and interact_pointer_pos
cursor(cx, ui_rect, ptr) ==
    IF ~IsSome(cx.slot_rect)
    THEN [cx |-> cx, rect |-> None, drag_interval |-> None, panic |-> TRUE]
    ELSE
    LET slot_rect == Unwrap(cx.slot_rect)
        rect == Rect(slot_rect.min_x, ui_rect.min_y, slot_rect.max_x, ui_rect.max_y)
        is_active_drag == ptr.dragged
        cx1 == IF is_active_drag /\ ptr.drag_started
               THEN [cx EXCEPT !.drag_origin = ptr.pos] ELSE cx
    IN  IF ~IsSome(cx1.drag_origin)
        THEN [cx |-> cx1, rect |-> Some(rect), drag_interval |-> None, panic |-> FALSE]
        ELSE IF ~IsSome(ptr.pos)
        THEN [cx |-> cx1, rect |-> Some(rect), drag_interval |-> None, panic |-> TRUE]
        ELSE
        LET origin == Unwrap(cx1.drag_origin)
            current == Unwrap(ptr.pos)
            min == Min2(origin.x, current.x)
            max == Max2(origin.x, current.x)
            width == rect.max_x - rect.min_x
            start == lerp_f32(cx1.view_interval,
                              f32_div(f32_from_i64(min - rect.min_x), f32_from_i64(width)))
            stop == lerp_f32(cx1.view_interval,
                             f32_div(f32_from_i64(max - rect.min_x), f32_from_i64(width)))
            iv == Interval(start, stop)
        IN  IF is_active_drag
            THEN [cx |-> cx1, rect |-> Some(rect), drag_interval |-> Some(iv),
                  panic |-> FALSE]
            ELSE IF ptr.drag_released
            THEN [cx |-> drag_released(cx1, min, max, iv),
                  rect |-> Some(rect), drag_interval |-> None, panic |-> FALSE]
            ELSE [cx |-> cx1, rect |-> Some(rect), drag_interval |-> None,
                  panic |-> FALSE]

\* the windows of the central panel, from window i on
RECURSIVE windows_content(_, _, _, _)
windows_content(wins, i, inp, w) ==
    IF i > Len(wins) THEN [windows |-> wins, w |-> w, passes |-> << >>]
    ELSE The({ The({ [rest EXCEPT !.passes =
                         << [height |-> c.height, rect |-> c.rect,
                             viewport |-> c.viewport, visits |-> c.w.visits,
                             generates |-> c.w.generates] >> \o @]
                     : rest \in { windows_content([wins EXCEPT ![i] = c.self], i + 1, inp,
                                                  [c.w EXCEPT !.visits = << >>,
                                                              !.generates = << >>]) } })
               : c \in { Window_content(wins[i], inp.ui, inp.scroll,
                                        [w EXCEPT !.clicked =
                                            IF inp.clicked.window = i THEN inp.clicked.id
                                            ELSE None]) } })

\* what a frame without any input is given
NoPointer ==
    [dragged |-> FALSE, drag_started |-> FALSE, drag_released |-> FALSE, pos |-> None]

NoControl == [first |-> None, last |-> None, button |-> None]

NoClick == [window |-> 0, id |-> None]

(***************************************************************************)
(* ProfApp::update, one frame.  inp holds what egui reports in the frame:  *)
(* the controls edited (ctl, for window ctl_window), the buttons clicked   *)
(* (add with the drawn stop, reset), the geometry (ui: the rect a window's *)
(* scroll area fills, all windows alike; ui_rect: ui.min_rect() of the     *)
(* central panel; scroll; row_height), the label clicked, the pointer on   *)
(* the timeline rect and the random stream of the frame.                   *)
(***************************************************************************)
update(app, inp) ==
    LET side1 == [app EXCEPT !.windows =
                     [i \in DOMAIN @ |->
                         controls(@[i], IF i = inp.ctl_window THEN inp.ctl
                                        ELSE NoControl)]]
        side2 == IF inp.add THEN add_profile(side1, inp.stop) ELSE side1
    IN  The({ The({ The({ [windows |-> lay.windows, cx |-> cur.cx, passes |-> lay.passes,
                           rect |-> cur.rect, drag_interval |-> cur.drag_interval,
                           panic |-> cur.panic]
                          : cur \in { cursor(lay.w.cx, inp.ui_rect, inp.ptr) } })
                    : lay \in { windows_content(
                                    side3.windows, 1, inp,
                                    [cx |-> [side3.cx EXCEPT !.row_height = inp.row_height],
                                     clicked |-> None, stream |-> inp.stream,
                                     draws |-> 0, visits |-> << >>, generates |-> << >>]) } })
              : side3 \in { IF inp.reset THEN reset_view(side2) ELSE side2 } })

(***************************************************************************)
(* State                                                                   *)
(***************************************************************************)
VARIABLES
    ds,         \* the RandomDataSource
    requested,  \* the last request_tiles call and the tiles it returned
    ret,        \* the last fetch and the tile it returned
    probe,      \* an earlier fetch, remembered to compare a later one with
    windows,    \* ProfApp.windows
    cx,         \* ProfApp.cx, the Context
    frame       \* the last frame: its input and what its layout and cursor did

dsVars == << ds, requested, ret, probe >>

appVars == << windows, cx, frame >>

vars == << dsVars, appVars >>

\* the entries the fetches are asked for: the first and the last slot of the
\* schema, and the summary of the first kind
SlotEntries ==
    { child(child(child(root, 0), 0), 0),
      child(child(child(root, NODES - 1), Len(Kinds) - 1), PROCS - 1) }

SummaryEntries == { summary(child(child(root, 0), 0)) }

\* request intervals: every small one, and some at the scale of the data
SmallRequests ==
    { w \in { Interval(a, b) : a \in {0, 2}, b \in 0..MaxTime } : w.start <= w.stop }

DataRequests ==
    { Interval(0, 1000000), Interval(0, 3 * lerp(Interval(0, 1000000), [num |-> 19, den |-> 20 * N])),
      Interval(250000, 1999999) }

Requests == SmallRequests \cup DataRequests

\* the tiles a fetch is asked for when it follows no request
DataTiles ==
    { request_tiles(root, Interval(0, 1000000))[i] : i \in 1..TILES }
    \cup { Interval(0, 100) }

\* what the rng may draw in a call: nothing is drawn (one arbitrary value stands
\* for it) when the call finds the field or the cache entry already there
StopDraws(self) ==
    IF IsSome(self.interval) THEN { Unwrap(self.interval).stop } ELSE IntervalStops

StreamDraws(cached) == IF cached THEN { 1 } ELSE 1..Streams

NoFetch == [op |-> "none", entry |-> root, tile |-> Interval(0, 0), val |-> << >>]

\* no frame has run
NoFrame == [op |-> "none", panic |-> FALSE, drags |-> 0]

\* the viewer before ProfApp::new
AppIdle ==
    /\ windows = << >>
    /\ cx = DefaultContext
    /\ frame = NoFrame

\* the data source before any call
DataIdle ==
    /\ ds = DefaultDataSource
    /\ requested = None
    /\ ret = NoFetch
    /\ probe = None

DataInit == DataIdle /\ AppIdle

\* DataSource::interval
CallInterval ==
    /\ UNCHANGED appVars
    /\ \E stop \in StopDraws(ds) :
           /\ ds' = interval(ds, stop)
           /\ ret' = [op |-> "interval", entry |-> root, tile |-> Interval(0, 0),
                      val |-> Unwrap(ds'.interval)]
           /\ UNCHANGED << requested, probe >>

\* DataSource::fetch_info
CallFetchInfo ==
    /\ UNCHANGED appVars
    /\ \E s \in StreamDraws(IsSome(ds.info)) :
           /\ ds' = fetch_info(ds, s)
           /\ ret' = [op |-> "fetch_info", entry |-> root, tile |-> Interval(0, 0),
                      val |-> Unwrap(ds'.info)]
           /\ UNCHANGED << requested, probe >>

\* DataSource::request_tiles
CallRequestTiles ==
    /\ UNCHANGED appVars
    /\ \E entry_id \in SlotEntries, request_interval \in Requests :
           /\ requested' = Some([entry |-> entry_id, interval |-> request_interval,
                                 tiles |-> request_tiles(entry_id, request_interval)])
           /\ ret' = NoFetch
           /\ UNCHANGED << ds, probe >>

\* DataSource::fetch_slot_tile
FetchSlotTile(entry_id, tile_id) ==
    \E stop \in StopDraws(ds),
       s \in StreamDraws(IsSome(ds.info) \/ entry_id \in DOMAIN ds.slot_cache) :
        /\ entry_id \in DOMAIN ds.slot_cache \/ slot_entry_ok(ds, entry_id, s)
        /\ ds' = generate_slot(ds, entry_id, stop, s)
        /\ ret' = [op |-> "fetch_slot_tile", entry |-> entry_id, tile |-> tile_id,
                   val |-> slot_tile(ds'.slot_cache[entry_id], tile_id)]

\* DataSource::fetch_summary_tile
FetchSummaryTile(entry_id, tile_id) ==
    \E stop \in StopDraws(ds), s \in StreamDraws(entry_id \in DOMAIN ds.summary_cache) :
        /\ ds' = generate_summary(ds, entry_id, stop, s)
        /\ ret' = [op |-> "fetch_summary_tile", entry |-> entry_id, tile |-> tile_id,
                   val |-> summary_tile(ds'.summary_cache[entry_id], tile_id)]

\* the first fetch that is remembered stays remembered
Remember == probe' = probe \/ (probe = None /\ probe' = Some(ret'))

CallFetchSlotTile ==
    /\ UNCHANGED appVars
    /\ \E entry_id \in SlotEntries, tile_id \in DataTiles :
           FetchSlotTile(entry_id, tile_id) /\ Remember /\ UNCHANGED requested

CallFetchSummaryTile ==
    /\ UNCHANGED appVars
    /\ \E entry_id \in SummaryEntries, tile_id \in DataTiles :
           FetchSummaryTile(entry_id, tile_id) /\ Remember /\ UNCHANGED requested

\* fetch_slot_tile for a tile of the last request
CallFetchRequestedTile ==
    /\ UNCHANGED appVars
    /\ /\ IsSome(requested)
       /\ \E k \in 1..TILES :
             FetchSlotTile(Unwrap(requested).entry, Unwrap(requested).tiles[k])
       /\ UNCHANGED << requested, probe >>

DataNext == CallInterval \/ CallFetchInfo \/ CallFetchSlotTile \/ CallFetchSummaryTile

SpecData == DataInit /\ [][DataNext]_vars

TilesNext == CallRequestTiles \/ CallFetchRequestedTile

SpecTiles == DataInit /\ [][TilesNext]_vars

(***************************************************************************)
(* fetch_slot_tile as a function of the cached items and the tile: the     *)
(* cache of one slot holds two rows drawn from a small set of items.       *)
(***************************************************************************)
\* items of a row
MaxRowLen == 2

ClipEntry == child(child(child(root, 0), 0), 0)

ClipItems ==
    { Item(Interval(90, 110), "BLUE", "Test Item"),
      Item(Interval(0, 50), "GREEN", "Test Item"),
      Item(Interval(100, 120), "RED", "Test Item"),
      Item(Interval(101, 130), "YELLOW", "Test Item"),
      Item(Interval(20, 100), "KHAKI", "Test Item") }

ClipTiles == { Interval(0, 100), Interval(100, 130), Interval(51, 89) }

\* the timestamps the items and tiles lie in
ClipTimes == 0..131

ClipRows == UNION { [1..n -> ClipItems] : n \in 0..MaxRowLen }

ClipInit ==
    /\ \E r1 \in ClipRows, r2 \in { << >>, << Item(Interval(90, 110), "RED", "Test Item") >> } :
          ds = [DefaultDataSource EXCEPT !.slot_cache = (ClipEntry :> << r1, r2 >>)]
    /\ requested = None
    /\ ret = NoFetch
    /\ probe = None
    /\ AppIdle

CallFetchClipTile ==
    /\ UNCHANGED appVars
    /\ \E tile_id \in ClipTiles :
           FetchSlotTile(ClipEntry, tile_id) /\ UNCHANGED << requested, probe >>

ClipNext == CallFetchClipTile

SpecClip == ClipInit /\ [][ClipNext]_vars

(***************************************************************************)
(* fetch_summary_tile as a function of the cached utilization and the      *)
(* tile: the cache of one summary holds a curve generate_summary built, or *)
(* a short curve with its points 10 ns apart.                              *)
(***************************************************************************)
\* points of a short curve
MaxPoints == 4

CurveEntry == summary(child(child(root, 0), 0))

\* the utilizations of a short curve's points: 0.0, 0.5 and 1.0
UtilInputs == { 0, UtilOne \div 2, UtilOne }

ShortCurves ==
    { [i \in 1..MaxPoints |-> UtilPoint(10 * (i - 1), u[i])] :
          u \in [1..MaxPoints -> UtilInputs] }

GeneratedCurves ==
    { utilization_of(Interval(0, stop), s) : stop \in IntervalStops, s \in 1..Streams }

\* tiles on and between the points of a short curve and past its end, and the
\* tiles of a request at the scale of the data
CurveTiles ==
    { w \in { Interval(5 * a, 5 * b) : a \in 0..(2 * MaxPoints - 1),
                                      b \in 0..(2 * MaxPoints - 1) } : w.start <= w.stop }
    \cup DataTiles

CurveInit ==
    /\ \E curve \in ShortCurves \cup GeneratedCurves :
          ds = [DefaultDataSource EXCEPT
                   !.interval = Some(Interval(curve[1].time, curve[Len(curve)].time)),
                   !.summary_cache = (CurveEntry :> curve)]
    /\ requested = None
    /\ ret = NoFetch
    /\ probe = None
    /\ AppIdle

CallFetchCurveTile ==
    /\ UNCHANGED appVars
    /\ \E tile_id \in CurveTiles :
           FetchSummaryTile(CurveEntry, tile_id) /\ UNCHANGED << requested, probe >>

CurveNext == CallFetchCurveTile

SpecCurve == CurveInit /\ [][CurveNext]_vars

(***************************************************************************)
(* Panel::height and Panel::content as functions of a panel: the panel,    *)
(* the node filter and the row height are drawn from bounded sets, and a   *)
(* pass lays the panel out for a rect and a viewport.                      *)
(***************************************************************************)
MaxSlots == 3

SlotInput(expanded, max_rows) ==
    [tag |-> "Slot", expanded |-> expanded, short_name |-> << "s" >>,
     max_rows |-> max_rows, items |-> << >>]

PanelInput(expanded, lvl, summ, slots) ==
    [tag |-> "Panel", expanded |-> expanded, short_name |-> << "p" >>, level |-> lvl,
     summary |-> summ, slots |-> slots]

\* a Summary whose utilization an earlier pass generated
SummaryInput ==
    summary_generate([tag |-> "Summary", utilization |-> << >>, color |-> "BLUE"],
                     Config(0, 0, Interval(0, 1000000)), 1, 0)

\* the children a drawn panel is made of: slots, and a panel with a summary, a
\* slot and a panel of its own
ChildInputs(lvl) ==
    { SlotInput(FALSE, 4), SlotInput(TRUE, 4), SlotInput(TRUE, 6),
      PanelInput(TRUE, lvl + 1, Some(SummaryInput),
                 << SlotInput(FALSE, 4),
                    PanelInput(TRUE, lvl + 2, None, << SlotInput(TRUE, 4) >>) >>) }

SeqsUpTo(S, n) == UNION { [1..k -> S] : k \in 0..n }

PanelInputs ==
    { PanelInput(e, lvl, summ, slots) :
        e \in BOOLEAN, lvl \in {0}, summ \in {None, Some(SummaryInput)},
        slots \in SeqsUpTo(ChildInputs(0), MaxSlots) }
    \cup
    { PanelInput(e, lvl, summ, slots) :
        e \in BOOLEAN, lvl \in {1}, summ \in {None, Some(SummaryInput)},
        slots \in SeqsUpTo(ChildInputs(1), MaxSlots) }

\* the node filters of a panel: node_selection keeps 0 <= min <= max <= len - 1
ConfigInputs(panel) ==
    IF panel.level # 0 THEN { Config(0, Max2(Len(panel.slots) - 1, 0), Interval(0, 1000000)) }
    ELSE LET last == Max2(Len(panel.slots) - 1, 0) IN
         { c \in { Config(a, b, Interval(0, 1000000)) : a \in 0..last, b \in 0..last } :
             c.min_node <= c.max_node }

RowHeights == {5}

\* the top of the panel's rect on screen and the vertical bounds of the viewport
PassInputs ==
    { [top |-> 0, min_y |-> 15, max_y |-> 25],
      [top |-> 100, min_y |-> 15, max_y |-> 25],
      [top |-> 100, min_y |-> 0, max_y |-> 200] }

PanelInit ==
    /\ DataIdle
    /\ \E panel \in PanelInputs :
          \E config \in ConfigInputs(panel) :
             windows = << [DefaultWindow EXCEPT !.panel = panel, !.config = config] >>
    /\ \E rh \in RowHeights : cx = [DefaultContext EXCEPT !.row_height = rh]
    /\ frame = NoFrame

\* one layout pass: Panel::height, then Panel::content
PanelPass ==
    \E p \in PassInputs :
        LET self == windows[1].panel
            config == windows[1].config
            rect == Rect(0, p.top, 1000, p.top + (p.max_y - p.min_y))
            viewport == Rect(0, p.min_y, 1000, p.max_y)
            c == content(self, root, rect, viewport, config,
                         [cx |-> cx, clicked |-> None, stream |-> 1, draws |-> 0,
                          visits |-> << >>, generates |-> << >>])
        IN  /\ windows' = [windows EXCEPT ![1].panel = c.self]
            /\ cx' = c.w.cx
            /\ frame' = [op |-> "content", panic |-> FALSE, drags |-> 0,
                         entry |-> self, config |-> config, row_height |-> cx.row_height,
                         passes |-> << [height |-> height(self, config, cx),
                                        rect |-> rect, viewport |-> viewport,
                                        visits |-> c.w.visits] >>]
            /\ UNCHANGED dsVars

PanelNext == PanelPass

SpecPanel == PanelInit /\ [][PanelNext]_vars

(***************************************************************************)
(* A label click: a root panel (expanded, without summary, as              *)
(* Window::generate builds it) is laid out in a pass in which one label is *)
(* clicked, and again in the pass after it.  frame keeps, beside what a    *)
(* pass of the panel keeps, the label clicked and (was) the pass before.   *)
(***************************************************************************)
RootInputs ==
    { PanelInput(TRUE, 0, None, slots) : slots \in SeqsUpTo(ChildInputs(0), MaxSlots) }

\* the entry of path id under self, if there is one
RECURSIVE EntryAt(_, _)
EntryAt(self, id) ==
    IF id = << >> THEN Some(self)
    ELSE IF self.tag # "Panel" THEN None
    ELSE IF Head(id) = -1
    THEN (IF Len(id) = 1 THEN self.summary ELSE None)
    ELSE IF Head(id) + 1 \in 1..Len(self.slots)
    THEN EntryAt(self.slots[Head(id) + 1], Tail(id))
    ELSE None

\* the labels of a panel: its children, their summaries and their first children
LabelIds(panel) ==
    { id \in UNION { { << i >>, << i, -1 >>, << i, 0 >> } : i \in 0..(MaxSlots - 1) } :
        IsSome(EntryAt(panel, id)) }

ToggleInit ==
    /\ DataIdle
    /\ \E panel \in RootInputs :
          \E config \in ConfigInputs(panel) :
             windows = << [DefaultWindow EXCEPT !.panel = panel, !.config = config] >>
    /\ \E rh \in RowHeights : cx = [DefaultContext EXCEPT !.row_height = rh]
    /\ frame = NoFrame

\* one layout pass in which the label clicked (if any) is clicked: Panel::height,
\* then Panel::content
TogglePass(op, p, clicked, was) ==
    LET self == windows[1].panel
        config == windows[1].config
        rect == Rect(0, p.top, 1000, p.top + (p.max_y - p.min_y))
        viewport == Rect(0, p.min_y, 1000, p.max_y)
    IN  \E c \in { content(self, root, rect, viewport, config,
                            [cx |-> cx, clicked |-> clicked, stream |-> 1, draws |-> 0,
                             visits |-> << >>, generates |-> << >>]) } :
            /\ windows' = [windows EXCEPT ![1].panel = c.self]
            /\ cx' = c.w.cx
            /\ frame' = [op |-> op, panic |-> FALSE, drags |-> 0,
                         entry |-> self, config |-> config, row_height |-> cx.row_height,
                         passes |-> << [height |-> height(self, config, cx),
                                        rect |-> rect, viewport |-> viewport,
                                        visits |-> c.w.visits] >>,
                         clicked |-> clicked, was |-> was]
            /\ UNCHANGED dsVars

\* the first pass, with a click on a label of the panel
ClickLabel ==
    /\ frame.op = "none"
    /\ \E p \in PassInputs, id \in LabelIds(windows[1].panel) :
           TogglePass("click", p, Some(id), None)

\* the pass after the click
PassAfterClick ==
    /\ frame.op = "click"
    /\ \E p \in PassInputs :
           TogglePass("next", p, None,
                      Some([entry |-> frame.entry, clicked |-> Unwrap(frame.clicked),
                            height |-> frame.passes[1].height]))

ToggleNext == ClickLabel \/ PassAfterClick

SpecToggle == ToggleInit /\ [][ToggleNext]_vars

(***************************************************************************)
(* Slot::content as a function of the slot, its rect and the viewport: the *)
(* slot has 0 to MaxSlotRows rows, the rect is as high as Panel::render    *)
(* makes it (Slot::height), and the viewport has its edges on, next to and *)
(* between the edges of the rows.  frame keeps the slot, the rect and the  *)
(* viewport, and the rows whose items were examined.                       *)
(***************************************************************************)
MaxSlotRows == 4

\* row heights for which the edges of a row are whole pixels (20) or not (5)
SlotRowHeights == { 5, 20 }

\* viewport edges, in the coordinates of the slot's rect
ViewportEdges(rh) ==
    { rh * k + d : k \in 0..MaxSlotRows, d \in { -1, 0, 1, rh - 1 } }

SlotInit ==
    /\ DataIdle
    /\ windows = << >>
    /\ cx = DefaultContext
    /\ \E expanded \in BOOLEAN, max_rows \in 0..MaxSlotRows, rh \in SlotRowHeights :
       \E lo \in ViewportEdges(rh), hi \in ViewportEdges(rh) :
          /\ lo <= hi
          /\ frame = [op |-> "args", panic |-> FALSE, drags |-> 0,
                      entry |-> SlotInput(expanded, max_rows), row_height |-> rh,
                      rect |-> Rect(68, 100, 1000,
                                    100 + rows(SlotInput(expanded, max_rows)) * rh),
                      viewport |-> Rect(0, lo, 1000, hi), rows |-> << >>]

\* Slot::content
CallSlotContent ==
    /\ frame.op = "args"
    /\ \E c \in { content(frame.entry, ClipEntry, frame.rect, frame.viewport,
                            Config(0, 0, Interval(0, 1000000)),
                            [cx |-> [cx EXCEPT !.row_height = frame.row_height],
                             clicked |-> None, stream |-> 1, draws |-> 0,
                             visits |-> << >>, generates |-> << >>]) } :
          /\ cx' = c.w.cx
          /\ frame' = [frame EXCEPT !.op = "slot", !.entry = c.self,
                                    !.rows = IF c.self.expanded
                                             THEN slot_rows(c.self, frame.rect,
                                                            frame.viewport, 0)
                                             ELSE << >>]
    /\ UNCHANGED << dsVars, windows >>

SlotNext == CallSlotContent

SpecSlot == SlotInit /\ [][SlotNext]_vars

(***************************************************************************)
(* The view interval: ProfApp::new, then frames of ProfApp::update in      *)
(* which a side-panel button is clicked or the pointer drags the timeline. *)
(***************************************************************************)
MaxWindows == 2
MaxDrags == 3

\* the draws of gen_range(1_000_000..2_000_000) a run may see
ViewStops == {1000000, 1999999}

\* the rect a window's scroll area fills; three label columns to its left
\* edge put the timeline at x in [200, 1200]
ViewUi == Rect(8, 30, 1200, 230)

\* ui.min_rect() of the central panel
ViewUiRect == Rect(8, 0, 1200, 230)

\* where a drag of the timeline starts, and where the pointer is later
DragOrigins == { Pos2(400, 100) }
PointerInputs == { Pos2(404, 100), Pos2(405, 100), Pos2(800, 100), Pos2(1250, 100) }

\* the random stream the frames of this specification draw from: what a window
\* shows does not enter the view interval
ViewStreams == {1}

\* a frame in which nothing is clicked, edited or dragged
QuietInput(s) ==
    [ctl_window |-> 0, ctl |-> NoControl, add |-> FALSE, stop |-> 0, reset |-> FALSE,
     row_height |-> 14, ui |-> ViewUi, ui_rect |-> ViewUiRect, scroll |-> 0,
     clicked |-> NoClick, ptr |-> NoPointer, stream |-> s]

ViewInit ==
    /\ DataIdle
    /\ \E stop \in ViewStops :
          /\ windows = ProfApp_new(stop).windows
          /\ cx = ProfApp_new(stop).cx
    /\ frame = [op |-> "new", panic |-> FALSE, drags |-> 0, generated |-> {}]

\* the entries generate was called on in the layout passes, with their windows
GeneratedIn(passes) ==
    UNION { { << i, passes[i].generates[k] >> : k \in 1..Len(passes[i].generates) }
            : i \in 1..Len(passes) }

\* ProfApp::update for the input inp; a panic ends the run.  frame keeps the
\* input of the pointer, what the layout passes did, the rect of the cursor and
\* the view interval a release or reset frame began with, and the controls
\* edited; drags counts the drags released
\* since the view interval was last set to the total interval, and generated
\* holds the entries generate was called on in this frame or an earlier one
Update(op, inp) ==
    /\ ~frame.panic
    /\ \E r \in { update([windows |-> windows, cx |-> cx], inp) } :
          /\ windows' = IF r.panic THEN windows ELSE r.windows
          /\ cx' = IF r.panic THEN cx ELSE r.cx
          /\ frame' = [op |-> op, panic |-> r.panic,
                       drags |-> IF op = "release" THEN frame.drags + 1
                                 ELSE IF op \in {"add", "reset"} THEN 0
                                 ELSE frame.drags,
                       ctl |-> inp.ctl, ptr |-> inp.ptr, origin |-> cx.drag_origin,
                       view |-> IF op \in {"release", "reset"} THEN Some(cx.view_interval)
                               ELSE None,
                       rect |-> r.rect, drag_interval |-> r.drag_interval,
                       passes |-> r.passes,
                       generated |-> frame.generated \cup GeneratedIn(r.passes)]
    /\ UNCHANGED dsVars

FrameIdle ==
    /\ cx.drag_origin = None
    /\ \E s \in ViewStreams : Update("idle", QuietInput(s))

ClickAddProfile ==
    /\ cx.drag_origin = None
    /\ Len(windows) < MaxWindows
    /\ \E s \in ViewStreams, stop \in ViewStops :
          Update("add", [QuietInput(s) EXCEPT !.add = TRUE, !.stop = stop])

ClickResetView ==
    /\ cx.drag_origin = None
    /\ \E s \in ViewStreams : Update("reset", [QuietInput(s) EXCEPT !.reset = TRUE])

DragStart ==
    /\ cx.drag_origin = None
    /\ frame.drags < MaxDrags
    /\ \E s \in ViewStreams, pos \in DragOrigins :
          Update("drag_start",
                 [QuietInput(s) EXCEPT !.ptr = [dragged |-> TRUE, drag_started |-> TRUE,
                                               drag_released |-> FALSE, pos |-> Some(pos)]])

DragMove ==
    /\ cx.drag_origin # None
    /\ \E s \in ViewStreams, pos \in PointerInputs :
          Update("drag_move",
                 [QuietInput(s) EXCEPT !.ptr = [dragged |-> TRUE, drag_started |-> FALSE,
                                               drag_released |-> FALSE, pos |-> Some(pos)]])

DragRelease ==
    /\ cx.drag_origin # None
    /\ \E s \in ViewStreams, pos \in PointerInputs :
          Update("release",
                 [QuietInput(s) EXCEPT !.ptr = [dragged |-> FALSE, drag_started |-> FALSE,
                                               drag_released |-> TRUE, pos |-> Some(pos)]])

\* buttons and drags: a drag is released in the frame after the one it starts in
ViewNext ==
    \/ ClickAddProfile
    \/ ClickResetView
    \/ DragStart
    \/ DragRelease

SpecView == ViewInit /\ [][ViewNext]_vars

(***************************************************************************)
(* The drag gesture: ProfApp::new, then frames of ProfApp::update in which *)
(* the pointer is idle, starts a drag on the timeline, moves in the drag   *)
(* or releases it, and frames in which "Reset View Interval" is clicked.   *)
(***************************************************************************)
DragNext ==
    \/ FrameIdle
    \/ ClickResetView
    \/ DragStart
    \/ DragMove
    \/ DragRelease

SpecDrag == ViewInit /\ [][DragNext]_vars

(***************************************************************************)
(* The controls of a window: ProfApp::new, then frames of ProfApp::update   *)
(* in which the node-selection sliders of the first window are edited or   *)
(* one of its expand/collapse buttons is clicked.                          *)
(***************************************************************************)
MaxNode == 2

\* the kinds (indices of Kinds) whose buttons the frames click
ButtonKinds == {1}

\* what a slider writes in a frame: nothing, or a node number.  The range a
\* Slider keeps its value in is egui's; the values are not limited to it here
SliderInputs == { None } \cup { Some(v) : v \in 0..MaxNode }

EditSliders ==
    \E s \in ViewStreams, first \in SliderInputs, last \in SliderInputs :
        /\ first # None \/ last # None
        /\ Update("sliders",
                  [QuietInput(s) EXCEPT !.ctl_window = 1,
                                        !.ctl = [first |-> first, last |-> last,
                                                 button |-> None]])

\* "Expand by kind" (expand = TRUE) or "Collapse by kind" of a kind
ClickExpandCollapse ==
    \E s \in ViewStreams, kind \in ButtonKinds, expand \in BOOLEAN :
        Update("button",
               [QuietInput(s) EXCEPT !.ctl_window = 1,
                                     !.ctl = [first |-> None, last |-> None,
                                              button |-> Some([kind |-> kind,
                                                               expand |-> expand])]])

ControlsNext == EditSliders \/ ClickExpandCollapse

SpecControls == ViewInit /\ [][ControlsNext]_vars

(***************************************************************************)
(* Entry addressing: an EntryID is built from root() by calls of child and *)
(* summary, and the data source looks it up in its schema tree             *)
(* (fetch_info().get(entry_id)).  frame keeps the calls made, the id the   *)
(* last call was made on (self, as the call left it), the id it returned   *)
(* and the outcome of the last get.                                        *)
(***************************************************************************)
MaxDepth == 4
MaxIndex == 2

ChildCall(i) == [tag |-> "child", index |-> i]
SummaryCall == [tag |-> "summary"]

EntryInit ==
    /\ DataIdle
    /\ windows = << >>
    /\ cx = DefaultContext
    /\ frame = [op |-> "root", panic |-> FALSE, drags |-> 0, self |-> root,
                id |-> root, calls |-> << >>, result |-> None]

CallChild ==
    /\ level(frame.id) < MaxDepth
    /\ \E i \in 0..MaxIndex :
          frame' = [frame EXCEPT !.op = "child", !.self = frame.id,
                                 !.id = child(frame.id, i),
                                 !.calls = Append(@, ChildCall(i)),
                                 !.result = None]
    /\ UNCHANGED << dsVars, windows, cx >>

CallSummary ==
    /\ level(frame.id) < MaxDepth
    /\ frame' = [frame EXCEPT !.op = "summary", !.self = frame.id,
                              !.id = summary(frame.id),
                              !.calls = Append(@, SummaryCall),
                              !.result = None]
    /\ UNCHANGED << dsVars, windows, cx >>

\* self.fetch_info().get(entry_id)
CallGet ==
    /\ frame.op # "get"
    /\ \E s \in StreamDraws(IsSome(ds.info)) :
          /\ ds' = fetch_info(ds, s)
          /\ frame' = [frame EXCEPT !.op = "get",
                                    !.result = Some(get(Unwrap(ds'.info), frame.id))]
    /\ UNCHANGED << requested, ret, probe, windows, cx >>

EntryNext == CallChild \/ CallSummary \/ CallGet

SpecEntry == EntryInit /\ [][EntryNext]_vars

(***************************************************************************)
(* Interval as a value type: two intervals and a timestamp are drawn from  *)
(* a bounded range (start > stop included, Interval::new does not test),   *)
(* and the methods are applied to them.  frame keeps the arguments and the *)
(* value returned.                                                         *)
(***************************************************************************)
MaxStamp == 3

StampInputs == 0..MaxStamp

IntervalInputs == { Interval(t1, t2) : t1 \in StampInputs, t2 \in StampInputs }

\* start <= stop
IsValid(iv) == iv.start <= iv.stop

IntervalInit ==
    /\ DataIdle
    /\ windows = << >>
    /\ cx = DefaultContext
    /\ \E a \in IntervalInputs, b \in IntervalInputs, p \in StampInputs :
          frame = [op |-> "args", panic |-> FALSE, drags |-> 0,
                   a |-> a, b |-> b, p |-> p, val |-> None]

\* the call op of frame.a returned val
Returned(op, val) ==
    /\ frame.op = "args"
    /\ frame' = [frame EXCEPT !.op = op, !.val = Some(val)]
    /\ UNCHANGED << dsVars, windows, cx >>

CallContains == Returned("contains", contains(frame.a, frame.p))

\* a.overlaps(b), b.overlaps(a) and the viewer's a.has_intersection(b)
CallOverlaps ==
    Returned("overlaps", [ab |-> overlaps(frame.a, frame.b),
                          ba |-> overlaps(frame.b, frame.a),
                          app |-> has_intersection(frame.a, frame.b)])

CallIntersection == Returned("intersection", intersection(frame.a, frame.b))

CallUnion == Returned("union", union(frame.a, frame.b))

\* request_tiles(entry_id, a)
CallTilesOfRequest == Returned("request_tiles", request_tiles(root, frame.a))

\* fetch_slot_tile of tile b on a slot of one row, the data source's interval
\* being a
CallClipItems ==
    Returned("fetch_slot_tile", slot_tile(items_of(frame.a, 1), TileID(frame.b)))

\* cx.slot_rect as the layout of a window in ViewUi leaves it
DragSlotRect == Rect(200, 210, 1200, 266)

\* the view intervals a drag is released on: a, and those of a fresh viewer
DragViews == { frame.a } \cup { Interval(0, stop) : stop \in ViewStops }

\* ProfApp::cursor in the frame a drag from origin is released at pos
CallDragZoom ==
    \E view \in DragViews, origin \in DragOrigins, pos \in PointerInputs :
        Returned("drag_zoom",
                 [view |-> view, origin |-> origin, pos |-> pos,
                  cx |-> cursor([DefaultContext EXCEPT !.total_interval = view,
                                                       !.view_interval = view,
                                                       !.drag_origin = Some(origin),
                                                       !.slot_rect = Some(DragSlotRect)],
                                ViewUiRect,
                                [dragged |-> FALSE, drag_started |-> FALSE,
                                 drag_released |-> TRUE, pos |-> Some(pos)]).cx])

IntervalNext ==
    \/ CallContains
    \/ CallOverlaps
    \/ CallIntersection
    \/ CallUnion
    \/ CallTilesOfRequest
    \/ CallClipItems
    \/ CallDragZoom

SpecInterval == IntervalInit /\ [][IntervalNext]_vars

(***************************************************************************)
(* lerp and unlerp in f32: an interval, a timestamp in it and a fraction   *)
(* of [0, 1] are drawn, and the two round trips are made.  The durations   *)
(* and offsets are all the small ones and some around 2^22 and 2^24, where *)
(* f32 stops telling neighbouring integers apart.                          *)
(***************************************************************************)
MaxDuration == 12
MaxDen == 4

LerpStarts == {0, 7}

BigDurations == {1999999, 4194304, 16777218, 33554432, 100000000}

DurationInputs == (0..MaxDuration) \cup BigDurations

BigOffsets == {4194303, 4194305, 16777215, 16777217}

\* the offsets from start of the timestamps drawn in an interval of duration d
OffsetInputs(d) ==
    { x \in (0..MaxDuration) \cup BigOffsets \cup {d - 1, d} : 0 <= x /\ x <= d }

\* the f32 fractions n / den of [0, 1]
FractionInputs ==
    UNION { { f32_div(f32_from_i64(n), f32_from_i64(den)) : n \in 0..den } :
            den \in 1..MaxDen }

LerpInit ==
    /\ DataIdle
    /\ windows = << >>
    /\ cx = DefaultContext
    /\ \E start \in LerpStarts, d \in DurationInputs :
       \E x \in OffsetInputs(d), f \in FractionInputs :
          frame = [op |-> "args", panic |-> FALSE, drags |-> 0,
                   iv |-> Interval(start, start + d), t |-> start + x,
                   f |-> f, val |-> None]

\* self.lerp(self.unlerp(t))
CallLerpOfUnlerp ==
    /\ frame.op = "args"
    /\ \E fraction \in { unlerp_f32(frame.iv, frame.t) } :
          frame' = [frame EXCEPT !.op = "lerp_unlerp",
                                 !.val = Some([fraction |-> fraction,
                                               time |-> lerp_f32(frame.iv, fraction)])]
    /\ UNCHANGED << dsVars, windows, cx >>

\* self.unlerp(self.lerp(f))
CallUnlerpOfLerp ==
    /\ frame.op = "args"
    /\ \E time \in { lerp_f32(frame.iv, frame.f) } :
          frame' = [frame EXCEPT !.op = "unlerp_lerp",
                                 !.val = Some([time |-> time,
                                               fraction |-> unlerp_f32(frame.iv, time)])]
    /\ UNCHANGED << dsVars, windows, cx >>

LerpNext == CallLerpOfUnlerp \/ CallUnlerpOfLerp

SpecLerp == LerpInit /\ [][LerpNext]_vars

(***************************************************************************)
(* Claims about the tiles (SpecTiles, SpecClip, SpecData)                  *)
(***************************************************************************)
Ends(ivs) == { iv.start : iv \in ivs } \cup { iv.stop : iv \in ivs }

\* The timestamps at which two finite unions of closed intervals can differ:
\* if they differ anywhere they differ at an end of one of the intervals or
\* right beside one.
ProbeTimes(ivs) == UNION { { x - 1, x, x + 1 } : x \in Ends(ivs) }

TilesOf(rq) == { rq.tiles[i] : i \in 1..Len(rq.tiles) }

Within(inner, outer) == outer.start <= inner.start /\ inner.stop <= outer.stop

\* C1: the tiles request_tiles(e, W) returns for W.start <= W.stop cover W
\* without gaps: the first tile starts at W.start, the last stops at W.stop,
\* each tile stops where the next starts, and a timestamp lies in W exactly
\* when it lies in some tile.
C1_TilesCoverRequest ==
    IsSome(requested) =>
        LET W == Unwrap(requested).interval
            tiles == Unwrap(requested).tiles
        IN  /\ Len(tiles) >= 1
            /\ tiles[1].start = W.start
            /\ tiles[Len(tiles)].stop = W.stop
            /\ \A i \in 1..(Len(tiles) - 1) : tiles[i].stop = tiles[i + 1].start
            /\ \A t \in ProbeTimes({ W } \cup TilesOf(Unwrap(requested))) :
                  contains(W, t) <=> (\E i \in 1..Len(tiles) : contains(tiles[i], t))

\* a request whose duration 4 is not a multiple of TILES, away from 0
C1_Witness ==
    /\ IsSome(requested)
    /\ Unwrap(requested).interval = Interval(2, 6)
    /\ Unwrap(requested).tiles = << Interval(2, 3), Interval(3, 4), Interval(4, 6) >>

\* C2: the tiles of one request are pairwise non-overlapping: for two
\* distinct tiles of the result overlaps is false and no timestamp is
\* contained in both.
C2_TilesPairwiseDisjoint ==
    IsSome(requested) =>
        LET tiles == Unwrap(requested).tiles IN
        \A i, j \in 1..Len(tiles) :
            tiles[i] # tiles[j] =>
                /\ ~overlaps(tiles[i], tiles[j])
                /\ \A t \in ProbeTimes(TilesOf(Unwrap(requested))) :
                      ~(contains(tiles[i], t) /\ contains(tiles[j], t))

\* the timestamps an item and a tile have in common
Common(a, b) == { t \in ClipTimes : contains(a, t) /\ contains(b, t) }

\* the indices of the items of a row that have a timestamp in common with the tile
Kept(row, tile_id) == { j \in 1..Len(row) : Common(row[j].interval, tile_id) # {} }

\* the n-th smallest element of a set of indices
Nth(S, n) == CHOOSE j \in S : Cardinality({ i \in S : i <= j }) = n

\* C3: fetch_slot_tile returns, row by row and in the original order, exactly
\* the items that overlap the tile, the interval of each replaced by its
\* intersection with the tile (so it lies inside the tile) and colour and
\* name unchanged; [90,110] against the tile [0,100] comes back as [90,100].
C3_SlotTileClipsItems ==
    ret.op = "fetch_slot_tile" =>
        LET items == ds.slot_cache[ret.entry]
            out == ret.val.items
        IN  /\ ret.val.tile_id = ret.tile
            /\ Len(out) = Len(items)
            /\ \A r \in 1..Len(items) :
                  LET kept == Kept(items[r], ret.tile) IN
                  /\ Len(out[r]) = Cardinality(kept)
                  /\ \A n \in 1..Len(out[r]) :
                        LET item == items[r][Nth(kept, n)] IN
                        /\ out[r][n].color = item.color
                        /\ out[r][n].name = item.name
                        /\ out[r][n].interval.start <= out[r][n].interval.stop
                        /\ Within(out[r][n].interval, ret.tile)
                        /\ { t \in ClipTimes : contains(out[r][n].interval, t) }
                               = Common(item.interval, ret.tile)
                        /\ (item.interval = Interval(90, 110) /\ ret.tile = Interval(0, 100))
                               => out[r][n].interval = Interval(90, 100)

\* the tile [0,100] fetched from a row holding [100,120] and then [90,110], and
\* from a second row holding [90,110]
C3_Witness ==
    /\ ret.op = "fetch_slot_tile"
    /\ ret.tile = Interval(0, 100)
    /\ Len(ds.slot_cache[ret.entry][1]) = 2
    /\ ds.slot_cache[ret.entry][1][1].interval = Interval(100, 120)
    /\ ds.slot_cache[ret.entry][1][2].interval = Interval(90, 110)
    /\ ret.val.items[1][2].interval = Interval(90, 100)
    /\ ret.val.items[2] = << Item(Interval(90, 100), "RED", "Test Item") >>

\* a piece of the item is among the items returned for a row
ReturnedIn(item, pieces) ==
    \E n \in 1..Len(pieces) :
        pieces[n].color = item.color /\ Within(pieces[n].interval, item.interval)

\* C4: over the tiles of one request an item is never duplicated: an item
\* wholly inside one tile (also one that ends exactly on that tile's boundary)
\* is returned for that tile only, and the pieces an item is cut into for two
\* tiles cover no common stretch of time.
C4_NoItemDuplicatedAcrossTiles ==
    (IsSome(requested) /\ ret.op = "fetch_slot_tile") =>
        LET tiles == Unwrap(requested).tiles
            items == ds.slot_cache[ret.entry]
        IN  \A k, k2 \in 1..Len(tiles) :
                (ret.tile = tiles[k] /\ tiles[k2] # tiles[k]) =>
                    \A r \in 1..Len(items) : \A j \in 1..Len(items[r]) :
                        LET item == items[r][j]
                            other == slot_row(<< item >>, tiles[k2])
                            mine == slot_row(<< item >>, tiles[k])
                        IN  /\ (Within(item.interval, tiles[k2])
                                    /\ ~Within(item.interval, tiles[k]))
                                  => ~ReturnedIn(item, ret.val.items[r])
                            /\ (mine # << >> /\ other # << >>)
                                  => duration_ns(intersection(mine[1].interval,
                                                              other[1].interval)) <= 0

SameKey(a, b) == a.op = b.op /\ a.entry = b.entry /\ a.tile = b.tile

IsFetch(r) == r.op \in { "fetch_slot_tile", "fetch_summary_tile" }

\* the lazily computed data stays as it is once it is there
LazyDataKept ==
    /\ IsSome(ds.interval) => ds'.interval = ds.interval
    /\ IsSome(ds.info) => ds'.info = ds.info
    /\ \A e \in DOMAIN ds.summary_cache :
          e \in DOMAIN ds'.summary_cache /\ ds'.summary_cache[e] = ds.summary_cache[e]
    /\ \A e \in DOMAIN ds.slot_cache :
          e \in DOMAIN ds'.slot_cache /\ ds'.slot_cache[e] = ds.slot_cache[e]

\* what a call returns is what the data source holds
ReturnsTheData ==
    /\ ret.op = "interval" => ret.val = Unwrap(ds.interval)
    /\ ret.op = "fetch_info" => ret.val = Unwrap(ds.info)
    /\ (IsFetch(ret) /\ IsSome(probe) /\ SameKey(ret, Unwrap(probe)))
          => ret.val = Unwrap(probe).val

\* C5: the lazily computed data is computed on first use and never
\* recomputed, changed or removed: interval() and fetch_info() return the
\* same value on every call, a cache entry once generated stays as it is, and
\* fetching the same (entry, tile) again, whatever was fetched in between,
\* returns the content the earlier fetch returned.
C5_LazyDataComputedOnce == [](ReturnsTheData) /\ [][LazyDataKept]_vars

\* a summary tile fetched again after a slot tile was fetched, with both
\* caches filled
C5_Witness ==
    /\ IsSome(probe)
    /\ Unwrap(probe).op = "fetch_summary_tile"
    /\ IsFetch(ret) /\ SameKey(ret, Unwrap(probe))
    /\ Len(ret.val.utilization) > 0
    /\ DOMAIN ds.slot_cache # {}
    /\ IsSome(ds.info)

(***************************************************************************)
(* Layout claims.  The panel a pass was given, its node filter and its row *)
(* height are in frame; the pass is frame.passes[1].                       *)
(***************************************************************************)
\* a Context with the row height of the last pass
PassCx == [DefaultContext EXCEPT !.row_height = frame.row_height]

\* child i (from 1) of the panel passes the node filter
FilterVisible(panel, config, i) ==
    panel.level # 0 \/ (config.min_node <= i - 1 /\ i - 1 <= config.max_node)

LaidOut(panel, config) ==
    { i \in 1..Len(panel.slots) : FilterVisible(panel, config, i) }

\* the heights of the children in S, added up
RECURSIVE ChildHeights(_, _, _)
ChildHeights(panel, config, S) ==
    IF S = { } THEN 0
    ELSE LET i == CHOOSE j \in S : TRUE
         IN  height(panel.slots[i], config, PassCx) + ChildHeights(panel, config, S \ {i})

SummaryHeight(panel) ==
    IF IsSome(panel.summary) THEN height(Unwrap(panel.summary), frame.config, PassCx)
    ELSE 0

\* the rows an expanded panel lays out: its summary and its visible children
LaidOutRows(panel, config) ==
    (IF IsSome(panel.summary) THEN 1 ELSE 0) + Cardinality(LaidOut(panel, config))

\* the panel of the scenario: no summary, three children of heights 10, 20, 30,
\* all of them passing the node filter
ScenarioPanel(panel, config) ==
    /\ panel.summary = None
    /\ Len(panel.slots) = 3
    /\ LaidOut(panel, config) = {1, 2, 3}
    /\ [i \in 1..3 |-> height(panel.slots[i], config, PassCx)] = << 10, 20, 30 >>

\* C6: Panel::height of a collapsed panel without a summary is 2 x row_height
\* whatever its children are, of a collapsed panel with a summary the summary
\* height, and of an expanded panel the summary height (if any) plus the
\* heights of the filter-visible children plus ROW_PADDING between consecutive
\* laid-out rows; children of heights 10, 20, 30 and no summary give 68.
C6_PanelHeight ==
    frame.op = "content" =>
        LET panel == frame.entry
            config == frame.config
            h == frame.passes[1].height
            n == LaidOutRows(panel, config)
        IN  /\ (~panel.expanded /\ panel.summary = None) => h = 2 * frame.row_height
            /\ (~panel.expanded /\ panel.summary # None) => h = SummaryHeight(panel)
            /\ panel.expanded =>
                  h = SummaryHeight(panel)
                      + ChildHeights(panel, config, LaidOut(panel, config))
                      + (IF n > 1 THEN (n - 1) * 4 ELSE 0)
            /\ (panel.expanded /\ ScenarioPanel(panel, config)) => h = 68

C6_Witness ==
    /\ frame.op = "content"
    /\ frame.entry.expanded
    /\ ScenarioPanel(frame.entry, frame.config)
    /\ frame.passes[1].height = 10 + 20 + 30 + 2 * 4

\* the top of child i of the panel, relative to the top of the panel's rect
ChildTop(panel, config, i) ==
    (IF IsSome(panel.summary) THEN SummaryHeight(panel) + 4 ELSE 0)
    + ChildHeights(panel, config, { j \in LaidOut(panel, config) : j < i })
    + 4 * Cardinality({ j \in LaidOut(panel, config) : j < i })

\* the children of the panel the pass called content and label for
VisitedChildren(pass) ==
    { i \in 1..Len(frame.entry.slots) :
        \E k \in 1..Len(pass.visits) : pass.visits[k].id = << i - 1 >> }

\* the closed ranges [a1, a2] and [b1, b2] share a point
RangesIntersect(a1, a2, b1, b2) == Max2(a1, b1) <= Min2(a2, b2)

\* C7: in a layout pass over an expanded Panel, content and label work is done
\* for a child if and only if the child passes the node filter and its
\* vertical range, relative to the top of the panel's rect, intersects
\* [viewport.min.y, viewport.max.y]; with children of heights 10, 20, 30 and
\* the viewport [15, 25] only the second child (14..34) is visited.
C7_VisitedIffInViewport ==
    (frame.op = "content" /\ frame.entry.expanded) =>
        LET panel == frame.entry
            config == frame.config
            pass == frame.passes[1]
        IN  /\ \A i \in 1..Len(panel.slots) :
                  i \in VisitedChildren(pass) <=>
                      /\ i \in LaidOut(panel, config)
                      /\ RangesIntersect(
                             ChildTop(panel, config, i),
                             ChildTop(panel, config, i)
                                 + height(panel.slots[i], config, PassCx),
                             pass.viewport.min_y, pass.viewport.max_y)
            /\ ( /\ ScenarioPanel(panel, config)
                 /\ pass.viewport.min_y = 15
                 /\ pass.viewport.max_y = 25 ) =>
                   /\ ChildTop(panel, config, 2) = 14
                   /\ VisitedChildren(pass) = {2}

C7_Witness ==
    /\ frame.op = "content"
    /\ frame.entry.expanded
    /\ ScenarioPanel(frame.entry, frame.config)
    /\ frame.passes[1].rect.min_y = 100
    /\ frame.passes[1].viewport.min_y = 15
    /\ frame.passes[1].viewport.max_y = 25
    /\ VisitedChildren(frame.passes[1]) = {2}

(***************************************************************************)
(* View interval claims.  In a release frame, frame.origin is the position *)
(* the drag started at, frame.ptr.pos the position it is released at,      *)
(* frame.rect the timeline rect and frame.view the view interval the       *)
(* frame began with.                                                       *)
(***************************************************************************)
DragMin == Min2(Unwrap(frame.origin).x, Unwrap(frame.ptr.pos).x)
DragMax == Max2(Unwrap(frame.origin).x, Unwrap(frame.ptr.pos).x)

\* the fraction of the timeline rect the screen position x is at
RectFraction(x) ==
    f32_div(f32_from_i64(x - Unwrap(frame.rect).min_x),
            f32_from_i64(Unwrap(frame.rect).max_x - Unwrap(frame.rect).min_x))

\* the fraction f is the f32 of n tenths
IsTenths(f, n) == f = f32_div(f32_from_i64(n), f32_from_i64(10))

\* C8: on the frame a drag is released, view_interval becomes
\* [view_interval.lerp(min fraction), view_interval.lerp(max fraction)] of the
\* dragged span if the dragged distance is greater than MIN_DRAG_DISTANCE (4)
\* and keeps its value otherwise; dragging from fraction 0.2 to 0.6 of
\* [0, 1_000_000] sets it to [200_000, 600_000].
C8_ReleaseCommitsDraggedSpan ==
    frame.op = "release" =>
        LET before == Unwrap(frame.view) IN
        /\ DragMax - DragMin > 4 =>
              cx.view_interval = Interval(lerp_f32(before, RectFraction(DragMin)),
                                          lerp_f32(before, RectFraction(DragMax)))
        /\ ~(DragMax - DragMin > 4) => cx.view_interval = before
        /\ ( /\ before = Interval(0, 1000000)
             /\ IsTenths(RectFraction(DragMin), 2)
             /\ IsTenths(RectFraction(DragMax), 6)
             /\ DragMax - DragMin > 4 ) =>
               cx.view_interval = Interval(200000, 600000)

C8_Witness ==
    /\ frame.op = "release"
    /\ frame.view = Some(Interval(0, 1000000))
    /\ IsTenths(RectFraction(DragMin), 2)
    /\ IsTenths(RectFraction(DragMax), 6)
    /\ cx.view_interval = Interval(200000, 600000)

\* C9: after any sequence of drag-zooms, resets and profile additions,
\* view_interval is never a zero-width interval (start = stop).
C9_ViewNeverZeroWidth ==
    frame.op # "none" => cx.view_interval.start # cx.view_interval.stop

\* C10: total_interval contains every window's config.interval, and
\* view_interval is a sub-interval of total_interval:
\* total.start <= view.start <= view.stop <= total.stop.
C10_ViewWithinTotal ==
    frame.op # "none" =>
        /\ \A i \in 1..Len(windows) :
              /\ cx.total_interval.start <= windows[i].config.interval.start
              /\ windows[i].config.interval.stop <= cx.total_interval.stop
        /\ cx.total_interval.start <= cx.view_interval.start
        /\ cx.view_interval.start <= cx.view_interval.stop
        /\ cx.view_interval.stop <= cx.total_interval.stop

(***************************************************************************)
(* Claims about the controls of the side panel                             *)
(***************************************************************************)
\* Window::content has generated the window's tree
Generated(window) == window.panel.slots # << >>

\* the expanded flags of an entry and of the entries below it
RECURSIVE ExpandedFlags(_)
ExpandedFlags(e) ==
    IF e.tag = "Summary" THEN << >>
    ELSE IF e.tag = "Slot" THEN << e.expanded >>
    ELSE << e.expanded, [i \in DOMAIN e.slots |-> ExpandedFlags(e.slots[i])] >>

\* C11: a frame in which Reset View Interval is clicked ends with
\* view_interval equal to total_interval; total_interval, the windows'
\* config.interval and, for every window whose tree exists, min_node,
\* max_node and every expanded flag are as before the frame.  A window shown
\* for the first time in that frame is generated by the frame's layout as in
\* a frame without the click.
C11_ResetViewInterval ==
    [][frame'.op = "reset" =>
          /\ cx'.view_interval = cx.total_interval
          /\ cx'.total_interval = cx.total_interval
          /\ Len(windows') = Len(windows)
          /\ \A i \in 1..Len(windows) :
                /\ windows'[i].config.interval = windows[i].config.interval
                /\ Generated(windows[i]) =>
                      /\ windows'[i].config = windows[i].config
                      /\ ExpandedFlags(windows'[i].panel)
                            = ExpandedFlags(windows[i].panel)
          /\ \E s \in ViewStreams :
                windows' = update([windows |-> windows, cx |-> cx],
                                  QuietInput(s)).windows
    ]_vars

\* a reset of a zoomed view with two profiles of different lengths
C11_Witness ==
    /\ frame.op = "reset"
    /\ frame.view # Some(cx.total_interval)
    /\ cx.view_interval = cx.total_interval
    /\ Len(windows) = 2
    /\ windows[1].config.interval # windows[2].config.interval
    /\ \A i \in 1..2 : Generated(windows[i])

\* C12: after a frame in which the sliders of Window::node_selection wrote
\* any values, config.min_node <= config.max_node; on a generated window an
\* edit of the first slider above max_node leaves both at the value written,
\* an edit of the last slider below min_node leaves both at the value written,
\* and the frame does not panic.
C12_NodeSelectionOrdered ==
    [][frame'.op = "sliders" =>
          LET before == windows[1].config
              after == windows'[1].config
              first == frame'.ctl.first
              last == frame'.ctl.last
          IN  /\ ~frame'.panic
              /\ after.min_node <= after.max_node
              /\ Generated(windows[1]) =>
                    /\ (first # None /\ last = None
                            /\ Unwrap(first) > before.max_node) =>
                          /\ after.min_node = Unwrap(first)
                          /\ after.max_node = Unwrap(first)
                    /\ (first = None /\ last # None
                            /\ Unwrap(last) < before.min_node) =>
                          /\ after.min_node = Unwrap(last)
                          /\ after.max_node = Unwrap(last)
                    /\ (first # None /\ last = None
                            /\ Unwrap(first) <= before.max_node) =>
                          /\ after.min_node = Unwrap(first)
                          /\ after.max_node = before.max_node
                    /\ (first = None /\ last # None
                            /\ Unwrap(last) >= before.min_node) =>
                          /\ after.min_node = before.min_node
                          /\ after.max_node = Unwrap(last)
    ]_vars

\* the last slider was pulled below a first node of 2: both end at its value
C12_Witness ==
    /\ frame.op = "sliders"
    /\ frame.ctl.first = None
    /\ frame.ctl.last = Some(1)
    /\ windows[1].config.min_node = 1
    /\ windows[1].config.max_node = 1
    /\ Generated(windows[1])

(***************************************************************************)
(* Claims about EntryID and EntryInfo::get (SpecEntry)                     *)
(***************************************************************************)
\* the EntryIndex the call stands for
CallIndex(call) == IF call.tag = "child" THEN EntrySlot(call.index) ELSE EntrySummary

\* C13: for an EntryID built from root() by child(i) and summary() calls,
\* level() is the number of calls, index(k) is Slot(i) where call k was
\* child(i) and Summary where it was summary(), index(k) is None exactly for
\* k >= level(), and the id a call was made on is as before the call: it is
\* the path of the calls before the last one.
C13_EntryIDDecodesCalls ==
    frame.op \in {"root", "child", "summary"} =>
        LET id == frame.id
            calls == frame.calls
        IN  /\ level(id) = Len(calls)
            /\ \A k \in 0..(MaxDepth + 1) :
                  /\ k < Len(calls) => index(id, k) = Some(CallIndex(calls[k + 1]))
                  /\ index(id, k) = None <=> k >= level(id)
            /\ frame.op # "root" =>
                  /\ level(frame.self) = Len(calls) - 1
                  /\ \A k \in 0..(MaxDepth + 1) :
                        /\ k < Len(calls) - 1 =>
                              index(frame.self, k) = Some(CallIndex(calls[k + 1]))
                        /\ index(frame.self, k) = None <=> k >= Len(calls) - 1

\* root().child(1).summary().child(2)
C13_Witness ==
    /\ frame.op = "child"
    /\ frame.calls = << ChildCall(1), SummaryCall, ChildCall(2) >>
    /\ index(frame.id, 0) = Some(EntrySlot(1))
    /\ index(frame.id, 1) = Some(EntrySummary)
    /\ index(frame.id, 2) = Some(EntrySlot(2))
    /\ index(frame.id, 3) = None
    /\ level(frame.self) = 2

\* where following the calls from node, call k on, first fails: "leaf" when
\* a call is applied to a Slot or Summary, "missing" when a Panel is asked for
\* a slot at or past its slot count or for a summary it does not have, and
\* "none" when every call names an existing child or summary
RECURSIVE FirstMismatch(_, _, _)
FirstMismatch(node, calls, k) ==
    IF k > Len(calls) THEN "none"
    ELSE IF node.tag # "Panel" THEN "leaf"
    ELSE IF calls[k].tag = "summary"
    THEN (IF IsSome(node.summary)
          THEN FirstMismatch(Unwrap(node.summary), calls, k + 1)
          ELSE "missing")
    ELSE IF calls[k].index >= Len(node.slots) THEN "missing"
    ELSE FirstMismatch(node.slots[calls[k].index + 1], calls, k + 1)

\* the node the calls lead to from node, call k on
RECURSIVE Follow(_, _, _)
Follow(node, calls, k) ==
    IF k > Len(calls) THEN node
    ELSE IF calls[k].tag = "summary" THEN Follow(Unwrap(node.summary), calls, k + 1)
    ELSE Follow(node.slots[calls[k].index + 1], calls, k + 1)

\* the schema tree of the data source and the outcome of the last get
InfoTree == Unwrap(ds.info)
GetResult == Unwrap(frame.result)

\* C14: get(root()) is the tree itself, and for an id whose every segment
\* names an existing child or summary of the Panel reached so far, get
\* returns the node reached by following the segments in order.
C14_GetFollowsSegments ==
    frame.op = "get" =>
        /\ frame.id = root => GetResult = Found(InfoTree)
        /\ FirstMismatch(InfoTree, frame.calls, 1) = "none" =>
              GetResult = Found(Follow(InfoTree, frame.calls, 1))

\* get(root().child(0).child(1).child(1)) is the second GPU slot of node 0
C14_Witness ==
    /\ frame.op = "get"
    /\ frame.calls = << ChildCall(0), ChildCall(1), ChildCall(1) >>
    /\ GetResult.outcome = "Some"
    /\ Unwrap(GetResult.node).tag = "Slot"
    /\ Unwrap(GetResult.node).long_name = << "Node", 0, "GPU", 1 >>

\* C15: for an id that does not correspond to a node of the tree (an id with
\* segments after a summary segment included), get returns None or panics and
\* never returns a node.
C15_GetNeverIgnoresMismatch ==
    (frame.op = "get" /\ FirstMismatch(InfoTree, frame.calls, 1) # "none") =>
        GetResult.outcome \in {"None", "panic"}

\* C16: get returns None exactly when a segment asks a Panel for a slot at or
\* past its slot count or for a summary it does not have, and panics exactly
\* when a segment is applied to a Slot or Summary leaf.
C16_GetFailuresByMismatchKind ==
    frame.op = "get" =>
        /\ GetResult.outcome = "None" <=>
              FirstMismatch(InfoTree, frame.calls, 1) = "missing"
        /\ GetResult.outcome = "panic" <=>
              FirstMismatch(InfoTree, frame.calls, 1) = "leaf"

(***************************************************************************)
(* Claims about Interval (SpecInterval)                                    *)
(***************************************************************************)
\* the timestamps both intervals contain, by their bounds
InBoth(a, b) ==
    { t \in StampInputs : a.start <= t /\ t <= a.stop /\ b.start <= t /\ t <= b.stop }

\* C17: contains(p) holds iff start <= p <= stop; for intervals with
\* start <= stop, a.overlaps(b) holds iff some timestamp is in both, so
\* overlaps is symmetric and [t1, t2] overlaps [t2, t3]; has_intersection
\* gives what overlaps gives.
C17_ClosedIntervalTests ==
    /\ frame.op = "contains" =>
          (Unwrap(frame.val) <=> (frame.a.start <= frame.p /\ frame.p <= frame.a.stop))
    /\ frame.op = "overlaps" =>
          LET a == frame.a
              b == frame.b
              val == Unwrap(frame.val)
          IN  /\ val.app = val.ab
              /\ (IsValid(a) /\ IsValid(b)) =>
                    /\ val.ab <=> InBoth(a, b) # {}
                    /\ val.ab = val.ba
                    /\ a.stop = b.start => val.ab

\* [0, 2] and [2, 3] touch at 2 and overlap
C17_Witness ==
    /\ frame.op = "overlaps"
    /\ frame.a = Interval(0, 2)
    /\ frame.b = Interval(2, 3)
    /\ Unwrap(frame.val).ab
    /\ Unwrap(frame.val).ba
    /\ Unwrap(frame.val).app

(***************************************************************************)
(* Claims about lerp and unlerp (SpecLerp)                                 *)
(***************************************************************************)
\* the offsets below 2^22 are the ones the f32 round trip keeps exact
ExactOffsets == Pow(2, MantissaBits - 2)

\* C18 as claimed: for every interval with start < stop and every t with
\* start <= t <= stop, lerp(unlerp(t)) = t.
C18_LerpInvertsUnlerp ==
    (frame.op = "lerp_unlerp" /\ frame.iv.start < frame.iv.stop) =>
        Unwrap(frame.val).time = frame.t

\* C18 as amended: for every interval with start < stop and every t with
\* start <= t <= stop, lerp(unlerp(t)) = t if t - start < 2^22, and for any t
\* it differs from t by at most (t - start) / 2^22.
C18_LerpInvertsUnlerpBelowF32Precision ==
    (frame.op = "lerp_unlerp" /\ frame.iv.start < frame.iv.stop) =>
        LET offset == frame.t - frame.iv.start
            time == Unwrap(frame.val).time
        IN  /\ offset < ExactOffsets => time = frame.t
            /\ Abs(time - frame.t) <= offset \div ExactOffsets

\* the timestamp 2^22 - 1 ns into an interval of 100 ms comes back exactly
C18_Witness ==
    /\ frame.op = "lerp_unlerp"
    /\ frame.iv = Interval(7, 100000007)
    /\ frame.t = 7 + 4194303
    /\ Unwrap(frame.val).time = frame.t

\* the f32 x >= 0, at most 1, in units of 2^-30, rounded down
Fixed30(x) ==
    IF x.m = 0 THEN 0
    ELSE IF x.e + 30 >= 0 THEN x.m * Pow(2, x.e + 30)
    ELSE x.m \div Pow(2, 0 - (x.e + 30))

\* f32::EPSILON, 2^-23, in units of 2^-30
Epsilon30 == Pow(2, 7)

\* a and b are numbers and differ by at most the bound (units of 2^-30)
Within30(a, b, bound) ==
    /\ a.kind = "num"
    /\ b.kind = "num"
    /\ Abs(Fixed30(a) - Fixed30(b)) <= bound + 1

\* C19 as claimed: for every interval with start <= stop and every fraction
\* f of [0, 1], unlerp(lerp(f)) equals f within f32 epsilon.
C19_UnlerpInvertsLerp ==
    frame.op = "unlerp_lerp" =>
        Within30(Unwrap(frame.val).fraction, frame.f, Epsilon30)

\* C19 as amended: for every interval with start < stop and every fraction f
\* of [0, 1], unlerp(lerp(f)) differs from f by at most 1 / (2 * duration),
\* the half nanosecond lerp rounds by, plus 2^-22 of f32 rounding; for
\* start = stop the result is NaN.
C19_UnlerpInvertsLerpUpToRounding ==
    frame.op = "unlerp_lerp" =>
        /\ frame.iv.start < frame.iv.stop =>
               Within30(Unwrap(frame.val).fraction, frame.f,
                        (Pow(2, 29) \div duration_ns(frame.iv)) + 1 + 2 * Epsilon30)
        /\ frame.iv.start = frame.iv.stop => Unwrap(frame.val).fraction = F32NaN

\* [0, 3].lerp(1/2) is 2 and [0, 3].unlerp(2) is 2/3, off by 1 / (2 * 3)
C19_Witness ==
    /\ frame.op = "unlerp_lerp"
    /\ frame.iv = Interval(0, 3)
    /\ frame.f = f32_div(f32_from_i64(1), f32_from_i64(2))
    /\ Unwrap(frame.val).time = 2
    /\ Unwrap(frame.val).fraction = f32_div(f32_from_i64(2), f32_from_i64(3))

(***************************************************************************)
(* Claims about the intervals produced.  frame.a and frame.b are the       *)
(* arguments: the request of request_tiles, the data source's interval and *)
(* the tile of fetch_slot_tile, the operands of union and intersection;    *)
(* a drag_zoom frame keeps the view interval the drag is released on.      *)
(***************************************************************************)
\* C20: every Interval produced has start <= stop: the tiles of request_tiles
\* on a valid request, the clipped item intervals of fetch_slot_tile on a valid
\* tile, the intersection of valid intervals that overlap, the union of valid
\* intervals, and the view_interval a drag-zoom leaves from a valid one.
C20_ProducedIntervalsValid ==
    LET val == Unwrap(frame.val) IN
    /\ (frame.op = "request_tiles" /\ IsValid(frame.a)) =>
           \A i \in 1..Len(val) : IsValid(val[i])
    /\ (frame.op = "fetch_slot_tile" /\ IsValid(frame.a) /\ IsValid(frame.b)) =>
           \A r \in 1..Len(val.items) :
               \A n \in 1..Len(val.items[r]) : IsValid(val.items[r][n].interval)
    /\ (frame.op = "intersection" /\ IsValid(frame.a) /\ IsValid(frame.b)
           /\ overlaps(frame.a, frame.b)) => IsValid(val)
    /\ (frame.op = "union" /\ IsValid(frame.a) /\ IsValid(frame.b)) => IsValid(val)
    /\ (frame.op = "drag_zoom" /\ IsValid(val.view)) => IsValid(val.cx.view_interval)

\* tile [1, 2] of a slot whose items are [0, 1], [1, 2] and [2, 3]: the first
\* and the last are cut to the zero-length [1, 1] and [2, 2]
C20_Witness ==
    /\ frame.op = "fetch_slot_tile"
    /\ frame.a = Interval(0, 3)
    /\ frame.b = Interval(1, 2)
    /\ Len(Unwrap(frame.val).items[1]) >= 2
    /\ Unwrap(frame.val).items[1][1].interval = Interval(1, 1)
    /\ IsValid(Unwrap(frame.val).items[1][Len(Unwrap(frame.val).items[1])].interval)

(***************************************************************************)
(* Claims about the summary tiles.  ret.val is the SummaryTile returned    *)
(* for the tile ret.tile, ds.summary_cache[ret.entry] the curve.           *)
(***************************************************************************)
\* C21: the samples of the SummaryTile fetch_summary_tile returns are ordered
\* by non-decreasing time, and the time of every sample lies in
\* [tile.start, tile.stop].
C21_SummaryTileOrderedInTile ==
    ret.op = "fetch_summary_tile" =>
        LET out == ret.val.utilization IN
        /\ ret.val.tile_id = ret.tile
        /\ \A n \in 1..Len(out) : contains(ret.tile, out[n].time)
        /\ \A n \in 1..(Len(out) - 1) : out[n].time <= out[n + 1].time

\* tile [5, 25] of the curve with points at 0, 10, 20 and 30: a sample at the
\* tile's start, the two points inside, a sample at the tile's stop
C21_Witness ==
    /\ ret.op = "fetch_summary_tile"
    /\ ret.tile = Interval(5, 25)
    /\ Len(ret.val.utilization) = 4
    /\ ret.val.utilization[1].time = 5
    /\ ret.val.utilization[2].time = 10
    /\ ret.val.utilization[4].time = 25

\* C22: every sample of a SummaryTile has a utilization in [0, 1], the samples
\* at the tile's start and stop included, and lies between the utilizations of
\* the two curve points its time is between.
C22_SummaryUtilizationInterpolated ==
    ret.op = "fetch_summary_tile" =>
        LET curve == ds.summary_cache[ret.entry]
            out == ret.val.utilization
        IN  \A n \in 1..Len(out) :
                /\ out[n].util \in 0..UtilOne
                /\ \E i \in 2..Len(curve) :
                       /\ contains(Interval(curve[i - 1].time, curve[i].time), out[n].time)
                       /\ Min2(curve[i - 1].util, curve[i].util) <= out[n].util
                       /\ out[n].util <= Max2(curve[i - 1].util, curve[i].util)

(***************************************************************************)
(* Claims about a label click.  In a click frame frame.entry is the panel  *)
(* the pass was given and frame.clicked the label clicked; in the frame    *)
(* after it frame.was keeps both and the height the click pass set.        *)
(***************************************************************************)
\* the entry with the expanded flag of the entry of path id inverted
RECURSIVE WithToggled(_, _)
WithToggled(self, id) ==
    IF id = << >> THEN [self EXCEPT !.expanded = ~@]
    ELSE [self EXCEPT !.slots[Head(id) + 1] = WithToggled(@, Tail(id))]

\* the pass called content and label for the entry of path id
Visited(pass, id) == \E k \in 1..Len(pass.visits) : pass.visits[k].id = id

\* the pass of frame done without a click
QuietPass ==
    content(frame.entry, root, frame.passes[1].rect, frame.passes[1].viewport,
            frame.config,
            [cx |-> PassCx, clicked |-> None, stream |-> 1, draws |-> 0,
             visits |-> << >>, generates |-> << >>])

\* C23: a label click in a layout pass takes effect in the next pass only.  The
\* height the pass sets, the entries it visits and their rects are those of the
\* pass without the click, and the pass leaves the panel as the pass without
\* the click does except for the inverted flag of the clicked entry (if its
\* label was reached and it is expandable); in the next pass the height set,
\* and the top and the height of every child visited, are computed from the
\* panel with the inverted flag.
C23_ToggleTakesEffectNextPass ==
    /\ frame.op = "click" =>
           LET id == Unwrap(frame.clicked)
               pass == frame.passes[1]
           IN  The({ /\ pass.height = height(frame.entry, frame.config, PassCx)
                     /\ pass.visits = quiet.w.visits
                     /\ windows[1].panel =
                            IF Visited(pass, id) /\ Unwrap(EntryAt(frame.entry, id)).tag # "Summary"
                            THEN WithToggled(quiet.self, id)
                            ELSE quiet.self
                     : quiet \in { QuietPass } })
    /\ frame.op = "next" =>
           LET panel == frame.entry
               pass == frame.passes[1]
               n == LaidOutRows(panel, frame.config)
           IN  /\ pass.height = ChildHeights(panel, frame.config, LaidOut(panel, frame.config))
                                 + (IF n > 1 THEN (n - 1) * 4 ELSE 0)
               /\ \A k \in 1..Len(pass.visits) :
                      LET v == pass.visits[k] IN
                      Len(v.id) = 1 =>
                          /\ v.rect.min_y = pass.rect.min_y
                                            + ChildTop(panel, frame.config, v.id[1] + 1)
                          /\ v.rect.max_y - v.rect.min_y =
                                 height(panel.slots[v.id[1] + 1], frame.config, PassCx)

\* the pass after a click that was reached: the height set differs from the
\* height the click pass set
C23_Witness ==
    /\ frame.op = "next"
    /\ EntryAt(frame.entry, Unwrap(frame.was).clicked)
           # EntryAt(Unwrap(frame.was).entry, Unwrap(frame.was).clicked)
    /\ Unwrap(EntryAt(frame.entry, Unwrap(frame.was).clicked)).expanded
           # Unwrap(EntryAt(Unwrap(frame.was).entry, Unwrap(frame.was).clicked)).expanded
    /\ frame.passes[1].height # Unwrap(frame.was).height
    /\ Len(frame.passes[1].visits) > 1

(***************************************************************************)
(* Claims about the traversal of Panel::content.  The reference traversal  *)
(* tests every entry by itself: it computes the top of each child from the *)
(* heights of the children before it and never stops early.                *)
(***************************************************************************)
\* the rect and the viewport Panel::render hands to the content of an entry
\* laid out from min_y to max_y
ContentRect(rect, min_y, max_y) ==
    Rect(Min2(Min2(rect.min_x + 60, rect.max_x) + 4, rect.max_x), min_y, rect.max_x, max_y)

ContentViewport(rect, viewport, min_y) == translate_y(viewport, rect.min_y - min_y)

\* the ids of the entries under self (path id, content called with rect and
\* viewport) that are not culled when each is tested by itself
RECURSIVE TestedAlone(_, _, _, _, _)
TestedAlone(self, id, rect, viewport, config) ==
    IF self.tag # "Panel" THEN { }
    ELSE LET first == rect.min_y + (IF IsSome(self.summary)
                                    THEN height(Unwrap(self.summary), config, PassCx) + 4
                                    ELSE 0)
             top(i) == first + ChildHeights(self, config,
                                            { j \in LaidOut(self, config) : j < i })
                             + 4 * Cardinality({ j \in LaidOut(self, config) : j < i })
             bottom(i) == top(i) + height(self.slots[i], config, PassCx)
         IN  (IF IsSome(self.summary)
                 /\ culled(rect.min_y, first - 4, rect, viewport) = "no"
              THEN { summary(id) } ELSE { })
             \cup
             (IF ~self.expanded THEN { }
              ELSE UNION { IF culled(top(i), bottom(i), rect, viewport) # "no" THEN { }
                           ELSE { child(id, i - 1) }
                                \cup TestedAlone(self.slots[i], child(id, i - 1),
                                                 ContentRect(rect, top(i), bottom(i)),
                                                 ContentViewport(rect, viewport, top(i)),
                                                 config)
                           : i \in LaidOut(self, config) })

VisitedIds(pass) == { pass.visits[k].id : k \in 1..Len(pass.visits) }

\* the tops of the visited entries never decrease from one visit of a panel's
\* child to the next
TopsAscend(pass) ==
    \A k, l \in 1..Len(pass.visits) :
        (k < l /\ Len(pass.visits[k].id) = Len(pass.visits[l].id)
           /\ SubSeq(pass.visits[k].id, 1, Len(pass.visits[k].id) - 1)
                = SubSeq(pass.visits[l].id, 1, Len(pass.visits[l].id) - 1))
        => pass.visits[k].rect.min_y <= pass.visits[l].rect.min_y

\* C24: stopping the traversal at the first child below the viewport skips no
\* child that intersects the viewport: for every expand/collapse state, node
\* filter and viewport, the entries Panel::content visits are those that are
\* not culled when every entry is tested by itself, and the y cursor never
\* decreases from one sibling to the next.
C24_EarlyBreakSkipsNothing ==
    frame.op = "content" =>
        /\ VisitedIds(frame.passes[1])
              = TestedAlone(frame.entry, root, frame.passes[1].rect,
                            frame.passes[1].viewport, frame.config)
        /\ TopsAscend(frame.passes[1])

\* a pass that stopped early: the first child is visited, a later child that
\* passes the node filter lies below the viewport and is not
C24_Witness ==
    /\ frame.op = "content"
    /\ frame.entry.expanded
    /\ 1 \in VisitedChildren(frame.passes[1])
    /\ \E i \in LaidOut(frame.entry, frame.config) :
           /\ i + 1 \in LaidOut(frame.entry, frame.config)
           /\ i \notin VisitedChildren(frame.passes[1])
           /\ ChildTop(frame.entry, frame.config, i) > frame.passes[1].viewport.max_y

\* the ids of the entries under self (path id, its rect's top at top on screen)
\* whose range on screen meets the range [lo, hi] of the screen
RECURSIVE OnScreen(_, _, _, _, _, _)
OnScreen(self, id, top, lo, hi, config) ==
    IF self.tag # "Panel" THEN { }
    ELSE LET first == top + (IF IsSome(self.summary)
                             THEN height(Unwrap(self.summary), config, PassCx) + 4
                             ELSE 0)
             from(i) == first + ChildHeights(self, config,
                                             { j \in LaidOut(self, config) : j < i })
                              + 4 * Cardinality({ j \in LaidOut(self, config) : j < i })
             to(i) == from(i) + height(self.slots[i], config, PassCx)
         IN  (IF IsSome(self.summary) /\ RangesIntersect(top, first - 4, lo, hi)
              THEN { summary(id) } ELSE { })
             \cup
             (IF ~self.expanded THEN { }
              ELSE UNION { IF ~RangesIntersect(from(i), to(i), lo, hi) THEN { }
                           ELSE { child(id, i - 1) }
                                \cup OnScreen(self.slots[i], child(id, i - 1), from(i),
                                              lo, hi, config)
                           : i \in LaidOut(self, config) })

\* C25: at every nesting depth the viewport handed to an entry's content is
\* the scroll viewport in the coordinates of the entry's own rect (viewport
\* coordinate = screen coordinate - rect.min.y), so an entry is visited exactly
\* if each entry on its path has a range on screen that meets the range of the
\* screen the top-level viewport shows.
C25_ViewportFollowsRect ==
    frame.op = "content" =>
        LET pass == frame.passes[1]
            lo == pass.rect.min_y + pass.viewport.min_y
            hi == pass.rect.min_y + pass.viewport.max_y
        IN  /\ \A k \in 1..Len(pass.visits) :
                   /\ pass.visits[k].rect.min_y + pass.visits[k].viewport.min_y = lo
                   /\ pass.visits[k].rect.min_y + pass.visits[k].viewport.max_y = hi
            /\ VisitedIds(pass) = OnScreen(frame.entry, root, pass.rect.min_y, lo, hi,
                                           frame.config)

\* three levels down: the slot of the panel of the second child's panel is
\* visited, with a rect and a viewport of its own
C25_Witness ==
    /\ frame.op = "content"
    /\ \E k \in 1..Len(frame.passes[1].visits) :
           /\ Len(frame.passes[1].visits[k].id) = 3
           /\ frame.passes[1].visits[k].id[1] = 1
           /\ frame.passes[1].visits[k].viewport.min_y # frame.passes[1].viewport.min_y
           /\ frame.passes[1].rect.min_y = 100

\* the rows Panel::content lays out for the panel of path id: its summary, and
\* its filter-visible children if it is expanded
RowIds(panel, id, config) ==
    (IF IsSome(panel.summary) THEN { summary(id) } ELSE { })
    \cup (IF panel.expanded THEN { child(id, i - 1) : i \in LaidOut(panel, config) }
          ELSE { })

\* where the y cursor is after the rows ids, all of them visited: ROW_PADDING
\* below the lowest of them
CursorAfter(pass, ids) ==
    LET bottoms == { pass.visits[k].rect.max_y :
                        k \in { n \in 1..Len(pass.visits) : pass.visits[n].id \in ids } }
    IN  (CHOOSE b \in bottoms : \A c \in bottoms : c <= b) + 4

\* the height h of the panel of path id, laid out from top, is the distance
\* the y cursor advances less one ROW_PADDING, if all its rows were visited
HeightIsAdvance(panel, id, top, h, pass) ==
    LET ids == RowIds(panel, id, frame.config) IN
    (ids # { } /\ ids \subseteq VisitedIds(pass)) =>
        h = CursorAfter(pass, ids) - top - 4

\* C26: Panel::height agrees with the layout Panel::content performs when no
\* row is culled: if at least one row is laid out it is the distance the y
\* cursor advances less one trailing ROW_PADDING, for the panel of the pass and
\* for every panel visited in it; it is never negative; and it is 0 for an
\* expanded panel without summary and without filter-visible child.
C26_HeightAgreesWithContent ==
    frame.op = "content" =>
        LET pass == frame.passes[1] IN
        /\ HeightIsAdvance(frame.entry, root, pass.rect.min_y, pass.height, pass)
        /\ \A k \in 1..Len(pass.visits) :
               LET v == pass.visits[k]
                   e == Unwrap(EntryAt(frame.entry, v.id))
               IN  /\ v.rect.max_y - v.rect.min_y >= 0
                   /\ e.tag = "Panel" =>
                          HeightIsAdvance(e, v.id, v.rect.min_y,
                                          v.rect.max_y - v.rect.min_y, pass)
        /\ pass.height >= 0
        /\ ( /\ frame.entry.expanded
             /\ frame.entry.summary = None
             /\ LaidOut(frame.entry, frame.config) = { } ) => pass.height = 0

\* an unculled pass over a panel with a summary and three children, one of
\* them hidden by the node filter
C26_Witness ==
    /\ frame.op = "content"
    /\ frame.entry.expanded
    /\ frame.entry.summary # None
    /\ Len(frame.entry.slots) = 3
    /\ Cardinality(LaidOut(frame.entry, frame.config)) = 2
    /\ RowIds(frame.entry, root, frame.config) \subseteq VisitedIds(frame.passes[1])
    /\ frame.passes[1].height
          = CursorAfter(frame.passes[1], RowIds(frame.entry, root, frame.config))
            - frame.passes[1].rect.min_y - 4

(***************************************************************************)
(* Claims about the rows of a Slot.  Row r of the items is drawn at        *)
(* position irow = len - r - 1 from the top of the slot's rect.            *)
(***************************************************************************)
\* the vertical range of row r, relative to the top of the rect, meets the
\* viewport (both in twentieths of a row of the rect)
RowInViewport(r) ==
    LET irow == Len(frame.entry.items) - r - 1
        h == frame.rect.max_y - frame.rect.min_y
        scale == 20 * Max2(frame.entry.max_rows, 2)
    IN  RangesIntersect((20 * irow + 1) * h, (20 * irow + 19) * h,
                        scale * frame.viewport.min_y, scale * frame.viewport.max_y)

\* C27: the row loop of an expanded Slot skips no row that intersects the
\* viewport: the rows whose items are examined are exactly the rows whose
\* vertical range meets [viewport.min.y, viewport.max.y], and they are examined
\* from the bottom-most on screen upwards.
C27_RowCullingSkipsNothing ==
    (frame.op = "slot" /\ frame.entry.expanded) =>
        /\ Len(frame.entry.items) = frame.entry.max_rows
        /\ { frame.rows[k] : k \in 1..Len(frame.rows) }
              = { r \in 0..(frame.entry.max_rows - 1) : RowInViewport(r) }
        /\ \A k \in 1..(Len(frame.rows) - 1) : frame.rows[k] < frame.rows[k + 1]

\* a slot of four rows with a viewport over the two rows in the middle: the
\* bottom row is skipped, the loop stops at the top row
C27_Witness ==
    /\ frame.op = "slot"
    /\ frame.entry.expanded
    /\ frame.entry.max_rows = 4
    /\ frame.rows = << 1, 2 >>

(***************************************************************************)
(* C28: generation happens once per entry.  In the frames of the controls, *)
(* frame.generated holds the entries (with their windows) generate was     *)
(* called on so far, and the passes of a frame log the calls they make.    *)
(***************************************************************************)
\* the generated data of entry p = << window, id >> of the windows wins
GeneratedData(wins, p) ==
    LET e == Unwrap(EntryAt(wins[p[1]].panel, p[2]))
    IN  IF e.tag = "Summary" THEN e.utilization ELSE e.items

\* C28: over any sequence of frames, no layout pass calls generate on an entry
\* an earlier pass called it on (whatever max_rows the entry drew), and the
\* utilization or the items generate produced stay as they are.
C28_GeneratedAtMostOnce ==
    [][ \A p \in frame.generated :
            /\ p \notin GeneratedIn(frame'.passes)
            /\ GeneratedData(windows', p) = GeneratedData(windows, p) ]_vars

(***************************************************************************)
(* The expand/collapse buttons: a generated window, on which the buttons   *)
(* of Window::controls are clicked, one a frame, and the labels of some of *)
(* its entries (a node, a kind of that node, a processor of that kind) are *)
(* clicked to expand or collapse them one by one.  frame keeps the button  *)
(* and the window as it was before the click.                              *)
(***************************************************************************)
\* the entries whose labels are clicked
KindLabelIds == { << 0 >>, << 0, 0 >>, << 0, 0, 0 >> }

KindsInit ==
    /\ DataIdle
    /\ \E s \in 1..Streams : windows = << Window_generate(DefaultWindow, s) >>
    /\ cx = DefaultContext
    /\ frame = [op |-> "new", panic |-> FALSE, drags |-> 0, button |-> None,
                before |-> None]

\* Window::controls in a frame in which a button of expand_collapse is clicked
ClickKindButton ==
    \E kind \in 1..Len(windows[1].kinds), expand \in BOOLEAN :
        LET button == Some([kind |-> kind, expand |-> expand]) IN
        /\ windows' = [windows EXCEPT
                          ![1] = controls(@, [first |-> None, last |-> None,
                                              button |-> button])]
        /\ frame' = [frame EXCEPT !.op = "button", !.button = button,
                                  !.before = Some(windows[1])]
        /\ UNCHANGED << dsVars, cx >>

\* Entry::label of the entry id when its label is clicked
ClickKindLabel ==
    \E id \in KindLabelIds :
        /\ windows' = [windows EXCEPT ![1].panel = WithToggled(@, id)]
        /\ frame' = [frame EXCEPT !.op = "label", !.button = None, !.before = None]
        /\ UNCHANGED << dsVars, cx >>

KindsNext == ClickKindButton \/ ClickKindLabel

SpecKinds == KindsInit /\ [][KindsNext]_vars

\* the kind panels (node, kind) of a window's panel
KindPanels(panel) ==
    { << n, k >> : n \in 1..Len(panel.slots), k \in 1..Len(Kinds) }

\* the entry with the expanded flags of its kind panels set to flag
RECURSIVE WithKindFlags(_, _)
WithKindFlags(self, flag) ==
    IF self.tag # "Panel" THEN self
    ELSE IF self.level = 2 THEN [self EXCEPT !.expanded = flag]
    ELSE [self EXCEPT !.slots = [i \in DOMAIN @ |-> WithKindFlags(@[i], flag)]]

C30_DragStateMachine ==
    [][ LET ptr == frame'.ptr
            starts == ptr.dragged /\ ptr.drag_started
        IN  /\ (cx'.drag_origin # None /\ cx'.drag_origin # cx.drag_origin) => starts
            /\ (starts /\ ~frame'.panic) => cx'.drag_origin = ptr.pos
            /\ (ptr.dragged /\ ~ptr.drag_started) => cx'.drag_origin = cx.drag_origin
            /\ (~ptr.dragged /\ ptr.drag_released /\ ~frame'.panic) =>
                   cx'.drag_origin = None
            /\ ptr.dragged =>
                   /\ cx'.view_interval = cx.view_interval
                   /\ cx'.total_interval = cx.total_interval ]_vars

\* a second drag was released without setting the view interval, after a first
\* one that set it
C30_Witness ==
    /\ frame.op = "release"
    /\ ~frame.panic
    /\ frame.drags = 2
    /\ frame.origin # None
    /\ cx.drag_origin = None
    /\ Unwrap(frame.view) # cx.total_interval
    /\ cx.view_interval = Unwrap(frame.view)

=============================================================================
